---- MODULE Spec2Model ----
(***************************************************************************)
(* Block extraction and reconciliation of shift-report spreadsheets        *)
(* (src/excel_processor.py, class ExcelProcessor).                         *)
(*                                                                         *)
(* Text is a sequence of units.  A digit, a punctuation mark and a blank   *)
(* are one-character units; a Russian word the code searches for is one    *)
(* unit, written in Latin transliteration in one of three letter cases     *)
(* ("itogo", "Itogo", "ITOGO").  Money is an integer number of hundredths; *)
(* a native numeric cell carries thousandths so that rounding to two       *)
(* fractional digits is visible.                                           *)
(***************************************************************************)
EXTENDS Integers, Sequences, FiniteSets, TLC

VARIABLES raw, parsed, readable, grid, proc, call, out, memo, interleaved,
          files, db, latest

vars == <<raw, parsed, readable, grid, proc, call, out, memo, interleaved,
          files, db, latest>>

\* the uploaded files, the block tables of the database and, per file and
\* block, the records of the most recent extraction
store == <<files, db, latest>>

NoStore == files = <<>> /\ db = <<>> /\ latest = <<>>

----------------------------------------------------------------------------
(* Bounds of the model *)

MaxStrLen == 3
MaxMilli == 16
MaxRows == 4
MaxRepeatRows == 2

----------------------------------------------------------------------------
(* Text: units, case mapping, str methods *)

Digits == {"0", "1", "2", "3", "4", "5", "6", "7", "8", "9"}
DigitVal ==
    ("0" :> 0) @@ ("1" :> 1) @@ ("2" :> 2) @@ ("3" :> 3) @@ ("4" :> 4) @@
    ("5" :> 5) @@ ("6" :> 6) @@ ("7" :> 7) @@ ("8" :> 8) @@ ("9" :> 9)
DigitChr == <<"0", "1", "2", "3", "4", "5", "6", "7", "8", "9">>

UpperOf ==
    ("itogo" :> "ITOGO") @@ ("Itogo" :> "ITOGO") @@
    ("kassa" :> "KASSA") @@ ("Kassa" :> "KASSA") @@
    ("za" :> "ZA") @@ ("smen" :> "SMEN") @@ ("u" :> "U") @@
    ("dohod" :> "DOHOD") @@ ("Dohod" :> "DOHOD") @@ ("y" :> "Y") @@
    ("rashod" :> "RASHOD") @@ ("Rashod" :> "RASHOD") @@
    ("pribyl" :> "PRIBYL") @@ ("Pribyl" :> "PRIBYL") @@
    ("vhodnye bilety" :> "VHODNYE BILETY") @@ ("Vhodnye bilety" :> "VHODNYE BILETY") @@
    ("nalichnye" :> "NALICHNYE") @@ ("Nalichnye" :> "NALICHNYE") @@
    ("b/n" :> "B/N") @@
    ("statistika" :> "STATISTIKA") @@ ("Statistika" :> "STATISTIKA") @@
    ("personal" :> "PERSONAL") @@ ("a" :> "A") @@
    ("inkassaciya" :> "INKASSACIYA") @@ ("Inkassaciya" :> "INKASSACIYA") @@
    ("primechan" :> "PRIMECHAN") @@ ("Primechan" :> "PRIMECHAN") @@
    ("dolg" :> "DOLG") @@ ("Dolg" :> "DOLG") @@
    ("cena" :> "CENA") @@ ("kol" :> "KOL") @@ ("summa" :> "SUMMA") @@
    ("kurs" :> "KURS") @@
    ("bar" :> "BAR") @@ ("Bar" :> "BAR") @@
    ("taksi" :> "TAKSI") @@ ("Taksi" :> "TAKSI") @@
    ("rub" :> "RUB") @@ ("usd" :> "USD") @@
    ("Konsumaciya Bara" :> "KONSUMACIYA BARA") @@ ("Konsumaciya kuhni" :> "KONSUMACIYA KUHNI") @@
    ("Crazy Menu" :> "CRAZY MENU") @@ ("Obshchiy chay" :> "OBSHCHIY CHAY") @@
    ("Overtime" :> "OVERTIME") @@ ("Kalyany" :> "KALYANY") @@ ("Shary" :> "SHARY") @@
    ("Shtrafy" :> "SHTRAFY") @@ ("Staff" :> "STAFF") @@ ("Staff kalyan" :> "STAFF KALYAN") @@
    ("kluba" :> "KLUBA") @@ ("Servisnyy sbor" :> "SERVISNYY SBOR") @@
    ("plyus po kasse" :> "PLYUS PO KASSE")

LowerOf ==
    ("ITOGO" :> "itogo") @@ ("Itogo" :> "itogo") @@
    ("KASSA" :> "kassa") @@ ("Kassa" :> "kassa") @@
    ("ZA" :> "za") @@ ("SMEN" :> "smen") @@ ("U" :> "u") @@
    ("DOHOD" :> "dohod") @@ ("Dohod" :> "dohod") @@ ("Y" :> "y") @@
    ("RASHOD" :> "rashod") @@ ("Rashod" :> "rashod") @@
    ("PRIBYL" :> "pribyl") @@ ("Pribyl" :> "pribyl") @@
    ("VHODNYE BILETY" :> "vhodnye bilety") @@ ("Vhodnye bilety" :> "vhodnye bilety") @@
    ("NALICHNYE" :> "nalichnye") @@ ("Nalichnye" :> "nalichnye") @@
    ("B/N" :> "b/n") @@
    ("STATISTIKA" :> "statistika") @@ ("Statistika" :> "statistika") @@
    ("PERSONAL" :> "personal") @@ ("A" :> "a") @@
    ("INKASSACIYA" :> "inkassaciya") @@ ("Inkassaciya" :> "inkassaciya") @@
    ("PRIMECHAN" :> "primechan") @@ ("Primechan" :> "primechan") @@
    ("DOLG" :> "dolg") @@ ("Dolg" :> "dolg") @@
    ("CENA" :> "cena") @@ ("KOL" :> "kol") @@ ("SUMMA" :> "summa") @@
    ("KURS" :> "kurs") @@
    ("BAR" :> "bar") @@ ("Bar" :> "bar") @@
    ("TAKSI" :> "taksi") @@ ("Taksi" :> "taksi") @@
    ("RUB" :> "rub") @@ ("USD" :> "usd") @@
    ("Konsumaciya Bara" :> "konsumaciya bara") @@ ("Konsumaciya kuhni" :> "konsumaciya kuhni") @@
    ("Crazy Menu" :> "crazy menu") @@ ("Obshchiy chay" :> "obshchiy chay") @@
    ("Overtime" :> "overtime") @@ ("Kalyany" :> "kalyany") @@ ("Shary" :> "shary") @@
    ("Shtrafy" :> "shtrafy") @@ ("Staff" :> "staff") @@ ("Staff kalyan" :> "staff kalyan") @@
    ("KLUBA" :> "kluba") @@ ("Servisnyy sbor" :> "servisnyy sbor") @@
    ("PLYUS PO KASSE" :> "plyus po kasse")

\* str.upper() and str.lower(): digits, punctuation and blanks are unchanged
StrUpper(s) == [i \in 1..Len(s) |-> IF s[i] \in DOMAIN UpperOf THEN UpperOf[s[i]] ELSE s[i]]
StrLower(s) == [i \in 1..Len(s) |-> IF s[i] \in DOMAIN LowerOf THEN LowerOf[s[i]] ELSE s[i]]

RECURSIVE LStrip(_)
LStrip(s) == IF s # <<>> /\ Head(s) = " " THEN LStrip(Tail(s)) ELSE s

RECURSIVE RStrip(_)
RStrip(s) == IF s # <<>> /\ s[Len(s)] = " " THEN RStrip(SubSeq(s, 1, Len(s) - 1)) ELSE s

\* str.strip()
StrStrip(s) == RStrip(LStrip(s))

\* sub in s
StrIn(sub, s) ==
    \E i \in 1..(Len(s) - Len(sub) + 1) : SubSeq(s, i, i + Len(sub) - 1) = sub

\* s.startswith(prefix)
StrStartsWith(s, prefix) ==
    Len(s) >= Len(prefix) /\ SubSeq(s, 1, Len(prefix)) = prefix

\* s.replace(unit, '')
StrRemove(s, units) == SelectSeq(s, LAMBDA u : u \notin units)

\* s.isdigit(): non-empty and every character a digit
StrIsDigit(s) == s # <<>> /\ \A i \in 1..Len(s) : s[i] \in Digits

\* s.split(':')[-1]
RECURSIVE AfterLastColon(_)
AfterLastColon(s) ==
    IF \E i \in 1..Len(s) : s[i] = ":"
    THEN AfterLastColon(Tail(s))
    ELSE s

----------------------------------------------------------------------------
(* Raw cell values as pandas hands them over *)

Val(t, m, s) == [t |-> t, m |-> m, s |-> s]

NoneVal == Val("none", 0, <<>>)
NaN == Val("nan", 0, <<>>)
Num(m) == Val("float", m, <<>>)
IntCell(n) == Val("int", n * 1000, <<>>)
Str(s) == Val("str", 0, s)
BoolTrue == Val("bool", 1000, <<>>)

\* value is None or (isinstance(value, float) and pd.isna(value))
IsBlank(v) == v.t \in {"none", "nan"}

\* no cell counts as a number
IsNoNumber(v) == FALSE

\* isinstance(value, (int, float)); bool is a subclass of int
IsIntOrFloat(v) == v.t \in {"int", "float", "bool", "nan", "float_inf", "float_big", "int_big"}

IsStr(v) == v.t = "str"

----------------------------------------------------------------------------
(* Decimal *)

Abs(x) == IF x < 0 THEN -x ELSE x

RECURSIVE Pow10(_)
Pow10(k) == IF k = 0 THEN 1 ELSE 10 * Pow10(k - 1)

\* Decimal.quantize(Decimal('0.01')) of n / 10^k under ROUND_HALF_EVEN, in hundredths
QuantizeHalfUp(n, k) ==
    LET a == Abs(n)
        d == IF k > 2 THEN Pow10(k - 2) ELSE 1
        q == IF k <= 2 THEN a * Pow10(2 - k)
             ELSE IF 2 * (a % d) >= d THEN (a \div d) + 1 ELSE a \div d
    IN  IF n < 0 THEN -q ELSE q

Quantize(n, k) ==
    LET a == Abs(n)
        d == IF k > 2 THEN Pow10(k - 2) ELSE 1
        q0 == a \div d
        r == a % d
        q == IF k <= 2 THEN a * Pow10(2 - k)
             ELSE IF 2 * r > d THEN q0 + 1
             ELSE IF 2 * r = d THEN q0 + (q0 % 2)
             ELSE q0
    IN  IF n < 0 THEN -q ELSE q

Dec(h) == [k |-> "dec", h |-> h]
DecNaN == [k |-> "nan", h |-> 0]
Raise(exc) == [k |-> exc, h |-> 0]

IsDec(d) == d.k = "dec"
IsRaise(d) == d.k \notin {"dec", "nan"}

----------------------------------------------------------------------------
(* _parse_decimal *)

NumericChars == Digits \cup {",", ".", "-"}

\* re.sub(r'[^0-9,\.\-]', '', value) then .replace(' ', '').replace(',', '.').strip()
Cleaned(s) ==
    LET kept == SelectSeq(s, LAMBDA u : u \in NumericChars)
        noBlank == SelectSeq(kept, LAMBDA u : u # " ")
    IN  StrStrip([i \in 1..Len(noBlank) |-> IF noBlank[i] = "," THEN "." ELSE noBlank[i]])

RECURSIVE DigitsValue(_)
DigitsValue(ds) ==
    IF ds = <<>> THEN 0
    ELSE 10 * DigitsValue(SubSeq(ds, 1, Len(ds) - 1)) + DigitVal[ds[Len(ds)]]

AllDigits(s) == \A i \in 1..Len(s) : s[i] \in Digits

\* Decimal(cleaned): [sign] digits [. digits] or [sign] . digits; anything else
\* is InvalidOperation.  Returns <<valid, n, k>> for the value n / 10^k.
DecimalOfStr(c) ==
    LET neg == c # <<>> /\ Head(c) = "-"
        body == IF neg THEN Tail(c) ELSE c
        dots == {i \in 1..Len(body) : body[i] = "."}
        p == IF dots = {} THEN Len(body) + 1 ELSE CHOOSE i \in dots : TRUE
        ip == SubSeq(body, 1, p - 1)
        fp == SubSeq(body, p + 1, Len(body))
        valid == /\ Cardinality(dots) <= 1
                 /\ AllDigits(ip) /\ AllDigits(fp)
                 /\ Len(ip) + Len(fp) >= 1
        n == DigitsValue(ip \o fp)
    IN  IF valid THEN <<TRUE, IF neg THEN -n ELSE n, Len(fp)>> ELSE <<FALSE, 0, 0>>

ParseDecimal(value) ==
    IF IsBlank(value) THEN Dec(0)
    ELSE IF value.t \in {"int", "float", "decimal"} THEN Dec(Quantize(value.m, 3))
    ELSE IF value.t = "decimal_nan" THEN DecNaN
    ELSE IF value.t \in {"bool", "float_inf", "float_big", "int_big"}
         THEN Raise("InvalidOperation")
    ELSE IF value.t = "str" THEN
        LET c == Cleaned(value.s)
            d == DecimalOfStr(c)
        IN  IF c = <<>> THEN Dec(0)
            ELSE IF d[1] THEN Dec(Quantize(d[2], d[3]))
            ELSE Dec(0)
    ELSE Dec(0)

\* _parse_int: int(Decimal) truncates toward zero
ParseInt(value) ==
    LET d == ParseDecimal(value)
    IN  IF IsDec(d) THEN Dec((IF d.h < 0 THEN -1 ELSE 1) * (Abs(d.h) \div 100) * 100)
        ELSE IF d.k = "nan" THEN Raise("ValueError")
        ELSE d

----------------------------------------------------------------------------
(* str(value) of a cell *)

RECURSIVE NatStr(_)
NatStr(n) == IF n < 10 THEN <<DigitChr[n + 1]>> ELSE NatStr(n \div 10) \o <<DigitChr[(n % 10) + 1]>>

\* fractional digits of m thousandths, trailing zeros dropped, at least one digit
FracStr(f) ==
    IF f % 100 = 0 THEN <<DigitChr[(f \div 100) + 1]>>
    ELSE IF f % 10 = 0 THEN <<DigitChr[(f \div 100) + 1], DigitChr[((f \div 10) % 10) + 1]>>
    ELSE <<DigitChr[(f \div 100) + 1], DigitChr[((f \div 10) % 10) + 1], DigitChr[(f % 10) + 1]>>

PyStr(v) ==
    CASE v.t = "str" -> v.s
      [] v.t = "int" ->
            (IF v.m < 0 THEN <<"-">> ELSE <<>>) \o NatStr(Abs(v.m) \div 1000)
      [] v.t = "float" ->
            (IF v.m < 0 THEN <<"-">> ELSE <<>>) \o NatStr(Abs(v.m) \div 1000)
                \o <<".">> \o FracStr(Abs(v.m) % 1000)
      [] v.t = "bool" -> <<"True">>
      [] v.t = "nan" -> <<"nan">>
      [] v.t = "none" -> <<"None">>
      [] OTHER -> <<"object">>

----------------------------------------------------------------------------
(* The DataFrame read with header=None: rows of equally many cells *)

NRows(df) == Len(df)
NCols(df) == IF Len(df) = 0 THEN 0 ELSE Len(df[1])

\* df.empty
DfEmpty(df) == NRows(df) = 0 \/ NCols(df) = 0

\* df.iloc[r, c]; a negative column counts from the last one
Iloc(df, r, c) == df[r + 1][(IF c < 0 THEN NCols(df) + c ELSE c) + 1]

\* df.iloc[r, c] if df.shape[1] > c else None
Cell(df, r, c) == IF NCols(df) > c THEN Iloc(df, r, c) ELSE NoneVal

Min(a, b) == IF a < b THEN a ELSE b

\* results of the extractors
EmptyResult == [res |-> "empty"]
RaisedResult == [res |-> "raise"]
NoResult == [res |-> "none"]

Some(h) == [some |-> TRUE, h |-> h]
None == [some |-> FALSE, h |-> 0]

\* the blank-row look-ahead of the column-0 scans: ITOGO within the next 4 rows
FoundTotalAhead(df, row_idx) ==
    \E next_idx \in (row_idx + 1)..(Min(row_idx + 5, NRows(df)) - 1) :
        LET next_cell == Iloc(df, next_idx, 0)
        IN  IsStr(next_cell) /\ StrIn(<<"ITOGO">>, StrUpper(next_cell.s))

----------------------------------------------------------------------------
(* extract_payment_types *)

FindInColumn0OrTop(df, idx, phrase) ==
    IF \E r \in idx..(NRows(df) - 1) :
            IsStr(Iloc(df, r, 0)) /\ StrUpper(StrStrip(Iloc(df, r, 0).s)) = phrase
    THEN CHOOSE r \in idx..(NRows(df) - 1) :
            /\ IsStr(Iloc(df, r, 0)) /\ StrUpper(StrStrip(Iloc(df, r, 0).s)) = phrase
            /\ \A q \in idx..(r - 1) :
                    ~(IsStr(Iloc(df, q, 0)) /\ StrUpper(StrStrip(Iloc(df, q, 0).s)) = phrase)
    ELSE 0

\* first row of column 0 whose stripped upper-case text equals the phrase, or -1
RECURSIVE FindInColumn0(_, _, _)
FindInColumn0(df, idx, phrase) ==
    IF idx >= NRows(df) THEN -1
    ELSE IF IsStr(Iloc(df, idx, 0)) /\ StrUpper(StrStrip(Iloc(df, idx, 0).s)) = phrase THEN idx
    ELSE FindInColumn0(df, idx + 1, phrase)

PaymentsInit ==
    [records |-> <<>>, calculated_total |-> 0, reported_total |-> None,
     reported_cash_total |-> None, raised |-> FALSE]

RECURSIVE PaymentsScan(_, _, _)
PaymentsScan(df, row_idx, st) ==
    IF row_idx >= NRows(df) THEN st
    ELSE
    LET label_cell == Cell(df, row_idx, 0)
        amount_cell == Cell(df, row_idx, 2)
        label == StrStrip(PyStr(label_cell))
        normalized == StrUpper(label)
        amount == ParseDecimal(amount_cell)
    IN  IF IsBlank(label_cell) THEN
            IF FoundTotalAhead(df, row_idx) THEN PaymentsScan(df, row_idx + 1, st) ELSE st
        ELSE IF label = <<>> THEN PaymentsScan(df, row_idx + 1, st)
        ELSE IF IsRaise(amount) THEN [st EXCEPT !.raised = TRUE]
        ELSE IF StrStartsWith(normalized, <<"ITOGO", " ", "KASSA">>) THEN
            PaymentsScan(df, row_idx + 1,
                [st EXCEPT !.reported_cash_total = Some(amount.h),
                           !.records = Append(@, [payment_type |-> <<"ITOGO", " ", "KASSA">>,
                                                  amount |-> amount.h, is_total |-> FALSE,
                                                  is_cash_total |-> TRUE, row |-> row_idx])])
        ELSE IF StrStartsWith(normalized, <<"ITOGO">>) THEN
            [st EXCEPT !.reported_total = Some(amount.h),
                       !.records = Append(@, [payment_type |-> <<"ITOGO">>,
                                              amount |-> amount.h, is_total |-> TRUE,
                                              is_cash_total |-> FALSE, row |-> row_idx])]
        ELSE
            PaymentsScan(df, row_idx + 1,
                [st EXCEPT !.calculated_total = @ + amount.h,
                           !.records = Append(@, [payment_type |-> label,
                                                  amount |-> amount.h, is_total |-> FALSE,
                                                  is_cash_total |-> FALSE, row |-> row_idx])])

TotalsMatchStrict(reported_total, calculated_total) ==
    IF reported_total.some THEN reported_total.h = calculated_total ELSE TRUE

\* totals_match of payments and expenses: compared only when a total was read
TotalsMatchOptional(reported_total, calculated_total) ==
    IF reported_total.some THEN ~(Abs(reported_total.h - calculated_total) > 1) ELSE TRUE

\* the payments result without the subtotal of the cash desk
PaymentsResultNoCashTotal(st) ==
    IF st.raised THEN RaisedResult
    ELSE IF st.records = <<>> THEN EmptyResult
    ELSE [res |-> "dict",
          records |-> st.records,
          calculated_total |-> st.calculated_total,
          reported_total |-> IF st.reported_total.some THEN st.reported_total.h
                             ELSE st.calculated_total,
          cash_total |-> None,
          totals_match |-> TotalsMatchOptional(st.reported_total, st.calculated_total)]

PaymentsResult(st) ==
    IF st.raised THEN RaisedResult
    ELSE IF st.records = <<>> THEN EmptyResult
    ELSE [res |-> "dict",
          records |-> st.records,
          calculated_total |-> st.calculated_total,
          reported_total |-> IF st.reported_total.some THEN st.reported_total.h
                             ELSE st.calculated_total,
          cash_total |-> st.reported_cash_total,
          totals_match |-> TotalsMatchOptional(st.reported_total, st.calculated_total)]

PaymentsFrom(df, start_row) ==
    IF start_row = -1 THEN EmptyResult
    ELSE PaymentsResult(PaymentsScan(df, start_row, PaymentsInit))

ExtractPaymentTypes(is_readable, df) ==
    IF ~is_readable THEN EmptyResult
    ELSE IF DfEmpty(df) THEN EmptyResult
    ELSE PaymentsFrom(df, FindInColumn0(df, 0, <<"NALICHNYE">>))

----------------------------------------------------------------------------
(* extract_staff_statistics *)

\* a list result that returns the records last row first
ListResultReversed(records) ==
    [res |-> "list", records |-> [i \in 1..Len(records) |-> records[Len(records) + 1 - i]]]

ListResult(records) == [res |-> "list", records |-> records]

RECURSIVE FindStaffHeader(_, _)
FindStaffHeader(df, idx) ==
    IF idx >= NRows(df) THEN -1
    ELSE LET value == Iloc(df, idx, 0)
         IN  IF /\ IsStr(value)
                /\ StrIn(<<"statistika">>, StrLower(StrStrip(value.s)))
                /\ StrIn(<<"personal">>, StrLower(StrStrip(value.s)))
             THEN idx
             ELSE FindStaffHeader(df, idx + 1)

RECURSIVE StaffScan(_, _, _)
StaffScan(df, row_idx, st) ==
    IF row_idx >= NRows(df) THEN st
    ELSE
    LET role_cell == Cell(df, row_idx, 0)
        count_cell == Cell(df, row_idx, 2)
        role_name == StrStrip(PyStr(role_cell))
        staff_count == ParseInt(count_cell)
    IN  IF IsBlank(role_cell) THEN st
        ELSE IF role_name = <<>> THEN st
        ELSE IF IsRaise(staff_count) THEN [st EXCEPT !.raised = TRUE]
        ELSE StaffScan(df, row_idx + 1,
                [st EXCEPT !.records = Append(@, [role_name |-> role_name,
                                                  staff_count |-> staff_count.h \div 100,
                                                  row |-> row_idx])])

RecordsResult(st) == IF st.raised THEN RaisedResult ELSE ListResult(st.records)

StaffFrom(df, header) ==
    IF header = -1 THEN ListResult(<<>>)
    ELSE RecordsResult(StaffScan(df, header + 1, [records |-> <<>>, raised |-> FALSE]))

ExtractStaffStatistics(is_readable, df) ==
    IF ~is_readable THEN ListResult(<<>>)
    ELSE IF DfEmpty(df) THEN ListResult(<<>>)
    ELSE StaffFrom(df, FindStaffHeader(df, 0))

----------------------------------------------------------------------------
(* Header search over every cell, row by row *)

CellHas(df, r, c, phrase) ==
    IsStr(Iloc(df, r, c)) /\ StrIn(phrase, StrLower(StrStrip(Iloc(df, r, c).s)))

\* first cell in row-major order whose stripped lower-case text contains the
\* phrase, as <<row, col>>; <<-1, -1>> when there is none
FindAnywhere(df, phrase) ==
    LET hits == {rc \in (0..(NRows(df) - 1)) \X (0..(NCols(df) - 1)) :
                    CellHas(df, rc[1], rc[2], phrase)}
    IN  IF hits = {} THEN <<-1, -1>>
        ELSE CHOOSE rc \in hits :
                \A o \in hits : rc[1] < o[1] \/ (rc[1] = o[1] /\ rc[2] <= o[2])

\* candidate.replace('.', '').replace(',', '').replace('-', '').replace(' ', '').isdigit()
LooksNumeric(s) == StrIsDigit(StrRemove(s, {".", ",", "-", " "}))

\* the same test without .replace(' ', ''), as the income total row makes it
LooksNumericNoBlank(s) == StrIsDigit(StrRemove(s, {".", ",", "-"}))

\* The probe of the cells right of a label, offsets 1..5: the first non-blank
\* cell decides.  "num": an amount was read; "text": a non-numeric text ended
\* the probe; "none": nothing found; "raise": _parse_decimal raised.
RECURSIVE ProbeAmount(_, _, _, _)
ProbeAmount(df, row_idx, col, col_offset) ==
    IF col_offset >= 6 THEN [kind |-> "none", h |-> 0]
    ELSE IF ~(NCols(df) > col + col_offset) THEN ProbeAmount(df, row_idx, col, col_offset + 1)
    ELSE
    LET candidate == Iloc(df, row_idx, col + col_offset)
        amount == ParseDecimal(candidate)
    IN  IF IsBlank(candidate) THEN ProbeAmount(df, row_idx, col, col_offset + 1)
        ELSE IF IsIntOrFloat(candidate) \/ (IsStr(candidate) /\ LooksNumeric(candidate.s)) THEN
            IF IsRaise(amount) THEN [kind |-> "raise", h |-> 0]
            ELSE [kind |-> "num", h |-> amount.h]
        ELSE IF IsStr(candidate) THEN [kind |-> "text", h |-> 0]
        ELSE ProbeAmount(df, row_idx, col, col_offset + 1)

----------------------------------------------------------------------------
(* extract_expense_records *)

ScanInit == [records |-> <<>>, calculated_total |-> 0, reported_total |-> None, raised |-> FALSE]

RECURSIVE ExpensesScan(_, _, _, _)
ExpensesScan(df, expense_col, row_idx, st) ==
    IF row_idx >= NRows(df) THEN st
    ELSE
    LET item_cell == Cell(df, row_idx, expense_col)
        item_name == StrStrip(PyStr(item_cell))
        probe == ProbeAmount(df, row_idx, expense_col, 1)
    IN  IF IsBlank(item_cell) THEN st
        ELSE IF IsIntOrFloat(item_cell) THEN st
        ELSE IF item_name = <<>> THEN st
        ELSE IF probe.kind = "raise" THEN [st EXCEPT !.raised = TRUE]
        ELSE IF probe.kind # "num" THEN ExpensesScan(df, expense_col, row_idx + 1, st)
        ELSE IF StrIn(<<"itogo">>, StrLower(item_name)) THEN
            [st EXCEPT !.reported_total = Some(probe.h),
                       !.records = Append(@, [expense_item |-> item_name, amount |-> probe.h,
                                              is_total |-> TRUE, row |-> row_idx])]
        ELSE ExpensesScan(df, expense_col, row_idx + 1,
                [st EXCEPT !.calculated_total = @ + probe.h,
                           !.records = Append(@, [expense_item |-> item_name, amount |-> probe.h,
                                                  is_total |-> FALSE, row |-> row_idx])])

ReconciledSwapped(st, totals_match) ==
    [res |-> "dict",
     records |-> st.records,
     calculated_total |-> IF st.reported_total.some THEN st.reported_total.h
                          ELSE st.calculated_total,
     reported_total |-> st.calculated_total,
     totals_match |-> totals_match]

ReconciledNoFallback(st, totals_match) ==
    [res |-> "dict",
     records |-> st.records,
     calculated_total |-> st.calculated_total,
     reported_total |-> st.reported_total.h,
     totals_match |-> totals_match]

\* the mapping returned by the expenses, cash and debts extractors
Reconciled(st, totals_match) ==
    [res |-> "dict",
     records |-> st.records,
     calculated_total |-> st.calculated_total,
     reported_total |-> IF st.reported_total.some THEN st.reported_total.h
                        ELSE st.calculated_total,
     totals_match |-> totals_match]

ExpensesResult(st) ==
    IF st.raised THEN RaisedResult
    ELSE IF st.records = <<>> THEN EmptyResult
    ELSE Reconciled(st, TotalsMatchOptional(st.reported_total, st.calculated_total))

ExpensesFrom(df, found) ==
    IF found[1] = -1 THEN EmptyResult
    ELSE ExpensesResult(ExpensesScan(df, found[2], found[1] + 1, ScanInit))

ExtractExpenseRecords(is_readable, df) ==
    IF ~is_readable THEN EmptyResult
    ELSE IF DfEmpty(df) THEN EmptyResult
    ELSE ExpensesFrom(df, FindAnywhere(df, <<"rashod">>))

----------------------------------------------------------------------------
(* extract_cash_collection *)

\* str(cell).strip().lower() of a non-blank cell, '' of a blank one
NormalizedCell(cell) == IF IsBlank(cell) THEN <<>> ELSE StrLower(StrStrip(PyStr(cell)))

\* the row after the (kol-vo, kurs, summa) header row when one of the first
\* three rows below the anchor is such a row, else start_row unchanged
RECURSIVE CashSkipHeader(_, _, _, _)
CashSkipHeader(df, cash_col, row_idx, start_row) ==
    IF row_idx >= Min(start_row + 3, NRows(df)) THEN start_row
    ELSE
    LET normalized == [i \in 0..3 |-> NormalizedCell(Cell(df, row_idx, cash_col + i))]
    IN  IF (\E i \in 0..3 : StrIn(<<"kol">>, normalized[i]))
           \/ (\E i \in 0..3 : StrIn(<<"kurs">>, normalized[i]))
        THEN row_idx + 1
        ELSE CashSkipHeader(df, cash_col, row_idx + 1, start_row)

\* the blank-row look-ahead of the cash scan: 'itogo' within the next 7 rows
CashTotalAhead(df, cash_col, row_idx) ==
    \E offset \in 1..7 :
        /\ row_idx + offset < NRows(df)
        /\ LET next_cell == Cell(df, row_idx + offset, cash_col)
           IN  IsStr(next_cell) /\ StrIn(<<"itogo">>, StrLower(StrStrip(next_cell.s)))

\* Vychislyaem summu, esli ne ukazana: quantity * rate, two fractional digits
CashAmount(is_total, amount, quantity, rate) ==
    IF ~is_total /\ amount = 0 THEN Quantize(quantity * rate, 4) ELSE amount

RECURSIVE CashScan(_, _, _, _)
CashScan(df, cash_col, row_idx, st) ==
    IF row_idx >= NRows(df) THEN st
    ELSE
    LET currency_cell == Cell(df, row_idx, cash_col)
        quantity_cell == Cell(df, row_idx, cash_col + 1)
        rate_cell == Cell(df, row_idx, cash_col + 2)
        amount_cell == Cell(df, row_idx, cash_col + 3)
        label == StrStrip(PyStr(currency_cell))
        is_total == StrIn(<<"itogo">>, StrLower(label))
        quantity == IF is_total THEN Dec(0) ELSE ParseDecimal(quantity_cell)
        rate == IF is_total THEN Dec(0) ELSE ParseDecimal(rate_cell)
        parsed_amount == ParseDecimal(amount_cell)
        amount == CashAmount(is_total, parsed_amount.h, quantity.h, rate.h)
        record == [currency_label |-> label,
                   quantity |-> IF is_total THEN None ELSE Some(quantity.h),
                   exchange_rate |-> IF is_total THEN None ELSE Some(rate.h),
                   amount |-> amount, is_total |-> is_total, row |-> row_idx]
    IN  IF IsBlank(currency_cell) THEN
            IF CashTotalAhead(df, cash_col, row_idx)
            THEN CashScan(df, cash_col, row_idx + 1, st) ELSE st
        ELSE IF IsIntOrFloat(currency_cell) THEN st
        ELSE IF label = <<>> THEN CashScan(df, cash_col, row_idx + 1, st)
        ELSE IF IsRaise(quantity) \/ IsRaise(rate) \/ IsRaise(parsed_amount)
             THEN [st EXCEPT !.raised = TRUE]
        ELSE IF is_total THEN
            [st EXCEPT !.reported_total = Some(amount), !.records = Append(@, record)]
        ELSE CashScan(df, cash_col, row_idx + 1,
                [st EXCEPT !.calculated_total = @ + amount, !.records = Append(@, record)])

\* totals_match of cash and debts: reported_total has already fallen back to
\* calculated_total when no total was read
TotalsMatchAlways(reported_total, calculated_total) ==
    LET reported == IF reported_total.some THEN reported_total.h ELSE calculated_total
    IN  Abs(reported - calculated_total) <= 1

CashResult(st) ==
    IF st.raised THEN RaisedResult
    ELSE IF st.records = <<>> THEN EmptyResult
    ELSE Reconciled(st, TotalsMatchAlways(st.reported_total, st.calculated_total))

CashFrom(df, found) ==
    IF found[1] = -1 THEN EmptyResult
    ELSE CashResult(CashScan(df, found[2],
                             CashSkipHeader(df, found[2], found[1] + 1, found[1] + 1),
                             ScanInit))

ExtractCashCollection(is_readable, df) ==
    IF ~is_readable THEN EmptyResult
    ELSE IF DfEmpty(df) THEN EmptyResult
    ELSE CashFrom(df, FindAnywhere(df, <<"inkassaciya">>))

----------------------------------------------------------------------------
(* extract_staff_debts *)

\* an 'itogo' label 5..14 rows below the header cell (r, c) with an int or a
\* float three columns to its right (a blank cell is the float NaN); the
\* search ends at the first such row or at the end of the sheet
CashItogoOffsets(df, r, c) ==
    {offset \in 5..14 :
        /\ r + offset < NRows(df)
        /\ LET itogo_cell == Cell(df, r + offset, c)
               amount_cell == Cell(df, r + offset, c + 3)
           IN  /\ IsStr(itogo_cell) /\ itogo_cell.s # <<>>
               /\ StrIn(<<"itogo">>, StrLower(StrStrip(itogo_cell.s)))
               /\ amount_cell.t # "none" /\ IsIntOrFloat(amount_cell)}

\* a search that takes the fifth row below the header as the total row
\* without looking at it
FindCashItogoDefault(df) ==
    IF FindAnywhere(df, <<"inkassaciya">>)[1] = -1 THEN <<-1, -1>>
    ELSE <<FindAnywhere(df, <<"inkassaciya">>)[1] + 5, FindAnywhere(df, <<"inkassaciya">>)[2]>>

\* <<cash_itogo_row, cash_col>> of the first header cell, in row-major order,
\* that has such a total row below it; <<-1, -1>> when there is none
FindCashItogo(df) ==
    LET hits == {rc \in (0..(NRows(df) - 1)) \X (0..(NCols(df) - 1)) :
                    /\ CellHas(df, rc[1], rc[2], <<"inkassaciya">>)
                    /\ CashItogoOffsets(df, rc[1], rc[2]) # {}}
        first == CHOOSE rc \in hits :
                    \A o \in hits : rc[1] < o[1] \/ (rc[1] = o[1] /\ rc[2] <= o[2])
        offs == CashItogoOffsets(df, first[1], first[2])
    IN  IF hits = {} THEN <<-1, -1>>
        ELSE <<first[1] + (CHOOSE o \in offs : \A x \in offs : o <= x), first[2]>>

RECURSIVE DebtsScanPastTotal(_, _, _, _, _)
DebtsScanPastTotal(df, cash_col, row_idx, stop_row, st) ==
    IF row_idx >= stop_row THEN st
    ELSE
    LET debt_type_cell == Cell(df, row_idx, cash_col)
        debt_type == StrStrip(PyStr(debt_type_cell))
        amount == ParseDecimal(Cell(df, row_idx, cash_col + 1))
        is_total == StrIn(<<"itogo">>, StrLower(debt_type))
        record == [debt_type |-> debt_type, amount |-> amount.h,
                   is_total |-> is_total, row |-> row_idx]
    IN  IF IsBlank(debt_type_cell) \/ IsIntOrFloat(debt_type_cell) \/ debt_type = <<>> THEN st
        ELSE IF IsRaise(amount) THEN [st EXCEPT !.raised = TRUE]
        ELSE DebtsScanPastTotal(df, cash_col, row_idx + 1, stop_row,
                [st EXCEPT !.reported_total = IF is_total THEN Some(amount.h) ELSE @,
                           !.calculated_total = IF is_total THEN @ ELSE @ + amount.h,
                           !.records = Append(@, record)])

RECURSIVE DebtsScan(_, _, _, _, _)
DebtsScan(df, cash_col, row_idx, stop_row, st) ==
    IF row_idx >= stop_row THEN st
    ELSE
    LET debt_type_cell == Cell(df, row_idx, cash_col)
        amount_cell == Cell(df, row_idx, cash_col + 1)
        debt_type == StrStrip(PyStr(debt_type_cell))
        amount == ParseDecimal(amount_cell)
        is_total == StrIn(<<"itogo">>, StrLower(debt_type))
        record == [debt_type |-> debt_type, amount |-> amount.h,
                   is_total |-> is_total, row |-> row_idx]
    IN  IF IsBlank(debt_type_cell) THEN st
        ELSE IF IsIntOrFloat(debt_type_cell) THEN st
        ELSE IF debt_type = <<>> THEN st
        ELSE IF IsRaise(amount) THEN [st EXCEPT !.raised = TRUE]
        ELSE IF is_total THEN
            [st EXCEPT !.reported_total = Some(amount.h), !.records = Append(@, record)]
        ELSE DebtsScan(df, cash_col, row_idx + 1, stop_row,
                [st EXCEPT !.calculated_total = @ + amount.h, !.records = Append(@, record)])

DebtsFrom(df, found) ==
    IF found[1] = -1 THEN EmptyResult
    ELSE CashResult(DebtsScan(df, found[2], found[1] + 2,
                              Min(found[1] + 2 + 10, NRows(df)), ScanInit))

ExtractStaffDebts(is_readable, df) ==
    IF ~is_readable THEN EmptyResult
    ELSE IF DfEmpty(df) THEN EmptyResult
    ELSE DebtsFrom(df, FindCashItogo(df))

----------------------------------------------------------------------------
(* extract_ticket_sales *)

\* ' '.join(str(c).lower() for c in the first three cells if pd.notna(c))
\* contains the word: some non-blank cell of the three contains it
NextRowHas(df, row_idx, word) ==
    \E col \in 0..2 :
        LET c == Cell(df, row_idx, col)
        IN  ~IsBlank(c) /\ StrIn(word, StrLower(PyStr(c)))

\* the row below the first 'VHODNYE BILETY' cell of column 0 that is followed
\* by a row holding 'cena' and 'kol'; -1 when there is none
RECURSIVE FindTicketsStart(_, _)
FindTicketsStart(df, idx) ==
    IF idx >= NRows(df) THEN -1
    ELSE
    LET value == Iloc(df, idx, 0)
    IN  IF /\ IsStr(value) /\ StrUpper(StrStrip(value.s)) = <<"VHODNYE BILETY">>
           /\ idx + 1 < NRows(df)
           /\ NextRowHas(df, idx + 1, <<"cena">>) /\ NextRowHas(df, idx + 1, <<"kol">>)
        THEN idx + 1
        ELSE FindTicketsStart(df, idx + 1)

\* the first data row: below the (cena, kol-vo, summa) header row, or the
\* first row whose column-0 cell is non-empty when that comes first
RECURSIVE TicketsSkipHeader(_, _, _)
TicketsSkipHeader(df, row_idx, start_row) ==
    IF row_idx >= NRows(df) THEN start_row
    ELSE
    LET normalized == [i \in 0..2 |-> LET cell == Cell(df, row_idx, i)
                                      IN  IF IsBlank(cell) THEN <<>>
                                          ELSE StrLower(StrStrip(PyStr(cell)))]
    IN  IF /\ \E i \in 0..2 : StrIn(<<"cena">>, normalized[i])
           /\ \E i \in 0..2 : StrIn(<<"kol">>, normalized[i])
           /\ \E i \in 0..2 : StrIn(<<"summa">>, normalized[i])
        THEN row_idx + 1
        ELSE IF normalized[0] # <<>> THEN row_idx
        ELSE TicketsSkipHeader(df, row_idx + 1, start_row)

TicketsInit ==
    [records |-> <<>>, calculated_quantity |-> 0, calculated_amount |-> 0,
     reported_total_quantity |-> None, reported_total_amount |-> None, raised |-> FALSE]

RECURSIVE TicketsScan(_, _, _)

\* one row of the tickets loop, given its three cells parsed
TicketsRow(df, row_idx, st, price_cell, parsed_price, quantity, amount) ==
    LET price_label == StrStrip(PyStr(price_cell))
    IN  IF IsStr(price_cell) /\ StrIn(<<"ITOGO">>, StrUpper(StrStrip(price_cell.s))) THEN
            IF IsRaise(quantity) \/ IsRaise(amount) THEN [st EXCEPT !.raised = TRUE]
            ELSE [st EXCEPT !.reported_total_quantity = Some(quantity.h \div 100),
                            !.reported_total_amount = Some(amount.h),
                            !.records = Append(@, [price_label |-> StrStrip(price_cell.s),
                                                   price_value |-> None,
                                                   quantity |-> quantity.h \div 100,
                                                   amount |-> amount.h,
                                                   is_total |-> TRUE, row |-> row_idx])]
        ELSE IF IsBlank(price_cell) THEN
            IF FoundTotalAhead(df, row_idx) THEN TicketsScan(df, row_idx + 1, st) ELSE st
        ELSE IF price_label = <<>> THEN TicketsScan(df, row_idx + 1, st)
        ELSE IF IsRaise(parsed_price) \/ IsRaise(quantity) \/ IsRaise(amount)
             THEN [st EXCEPT !.raised = TRUE]
        ELSE TicketsScan(df, row_idx + 1,
                [st EXCEPT !.calculated_quantity = @ + (quantity.h \div 100),
                           !.calculated_amount = @ + amount.h,
                           !.records = Append(@, [price_label |-> price_label,
                                                  price_value |-> Some(parsed_price.h),
                                                  quantity |-> quantity.h \div 100,
                                                  amount |-> amount.h,
                                                  is_total |-> FALSE, row |-> row_idx])])

TicketsScan(df, row_idx, st) ==
    IF row_idx >= NRows(df) THEN st
    ELSE TicketsRow(df, row_idx, st, Cell(df, row_idx, 0),
                    ParseDecimal(Cell(df, row_idx, 0)),
                    ParseInt(Cell(df, row_idx, 1)),
                    ParseDecimal(Cell(df, row_idx, 2)))

\* a comparison that looks at the amounts only
TicketsTotalsMatchAmountOnly(st) ==
    ~(st.reported_total_amount.some
      /\ Abs(st.reported_total_amount.h - st.calculated_amount) > 1)

TicketsTotalsMatch(st) ==
    /\ ~(st.reported_total_quantity.some
         /\ st.reported_total_quantity.h # st.calculated_quantity)
    /\ ~(st.reported_total_amount.some
         /\ Abs(st.reported_total_amount.h - st.calculated_amount) > 1)

TicketsResult(st) ==
    IF st.raised THEN RaisedResult
    ELSE IF st.records = <<>> THEN EmptyResult
    ELSE [res |-> "dict",
          records |-> st.records,
          calculated_quantity |-> st.calculated_quantity,
          calculated_amount |-> st.calculated_amount,
          total_quantity |-> IF st.reported_total_quantity.some
                             THEN st.reported_total_quantity.h
                             ELSE st.calculated_quantity,
          total_amount |-> IF st.reported_total_amount.some
                           THEN st.reported_total_amount.h
                           ELSE st.calculated_amount,
          totals_match |-> TicketsTotalsMatch(st)]

TicketsFrom(df, found) ==
    IF found = -1 THEN EmptyResult
    ELSE TicketsResult(TicketsScan(df, TicketsSkipHeader(df, found, found), TicketsInit))

ExtractTicketSales(is_readable, df) ==
    IF ~is_readable THEN EmptyResult
    ELSE IF DfEmpty(df) THEN EmptyResult
    ELSE TicketsFrom(df, FindTicketsStart(df, 0))

----------------------------------------------------------------------------
(* extract_income_records *)

\* self.income_categories
IncomeCategories ==
    {<<"Vhodnye bilety">>, <<"Bar">>, <<"Konsumaciya Bara">>, <<"Konsumaciya kuhni">>,
     <<"Crazy Menu">>, <<"Obshchiy chay">>, <<"Overtime">>, <<"Kalyany">>, <<"Shary">>,
     <<"Shtrafy">>, <<"Staff">>, <<"Staff kalyan">>, <<"Dohod", " ", "kluba">>,
     <<"Servisnyy sbor">>, <<"Itogo">>, <<"plyus po kasse">>,
     <<"Itogo", " ", "za", " ", "smen", "u">>}

ProcInit == [income_categories |-> IncomeCategories]

\* first column of row 0 whose stripped upper-case text contains 'DOHOD', or -1
RECURSIVE FindIncomeCol(_, _)
FindIncomeCol(df, col_idx) ==
    IF col_idx >= NCols(df) THEN -1
    ELSE LET cell_value == Iloc(df, 0, col_idx)
         IN  IF IsStr(cell_value) /\ StrIn(<<"DOHOD">>, StrUpper(StrStrip(cell_value.s)))
             THEN col_idx
             ELSE FindIncomeCol(df, col_idx + 1)

\* a probe of the total row that never reads a figure
ProbeTotalNothing(df, row_idx, col, col_offset) == [kind |-> "none", h |-> 0]

\* the amount of the 'Itogo za smenu' row: the first cell at offsets 1..5 that
\* is a number or a numeric-looking text; other text is stepped over
RECURSIVE ProbeTotalAmount(_, _, _, _)
ProbeTotalAmount(df, row_idx, col, col_offset) ==
    IF col_offset >= 6 THEN [kind |-> "none", h |-> 0]
    ELSE IF ~(NCols(df) > col + col_offset) THEN ProbeTotalAmount(df, row_idx, col, col_offset + 1)
    ELSE
    LET candidate == Iloc(df, row_idx, col + col_offset)
        amount == ParseDecimal(candidate)
    IN  IF ~IsBlank(candidate)
           /\ (IsIntOrFloat(candidate) \/ (IsStr(candidate) /\ LooksNumericNoBlank(candidate.s)))
        THEN IF IsRaise(amount) THEN [kind |-> "raise", h |-> 0]
             ELSE [kind |-> "num", h |-> amount.h]
        ELSE ProbeTotalAmount(df, row_idx, col, col_offset + 1)

IncomeInit == [records |-> <<>>, raised |-> FALSE]

RECURSIVE IncomeHorizontalScan(_, _, _, _)
IncomeHorizontalScan(df, income_col, row_idx, st) ==
    IF row_idx >= NRows(df) THEN st
    ELSE
    LET raw_category == Cell(df, row_idx, income_col)
        category == StrStrip(PyStr(raw_category))
        category_upper == StrUpper(category)
        total == ProbeTotalAmount(df, row_idx, income_col, 1)
        probe == ProbeAmount(df, row_idx, income_col, 1)
    IN  IF IsBlank(raw_category) THEN st
        ELSE IF IsIntOrFloat(raw_category) THEN st
        ELSE IF category = <<>> THEN st
        ELSE IF StrIn(<<"ITOGO">>, category_upper) /\ StrIn(<<"SMEN">>, category_upper) THEN
            IF total.kind = "raise" THEN [st EXCEPT !.raised = TRUE]
            ELSE IF total.kind = "num" THEN
                [st EXCEPT !.records = Append(@, [category |-> category, amount |-> total.h,
                                                  row |-> row_idx])]
            ELSE st
        ELSE IF probe.kind = "raise" THEN [st EXCEPT !.raised = TRUE]
        ELSE IF probe.kind # "num" /\ category_upper = <<"VHODNYE BILETY">> THEN st
        ELSE IncomeHorizontalScan(df, income_col, row_idx + 1,
                [st EXCEPT !.records = Append(@,
                    [category |-> category,
                     amount |-> IF probe.kind = "num" THEN probe.h ELSE 0,
                     row |-> row_idx])])

RECURSIVE IncomeVerticalScan(_, _, _, _)
IncomeVerticalScan(self, df, row_idx, st) ==
    IF row_idx >= NRows(df) THEN st
    ELSE
    LET raw_category == Cell(df, row_idx, 0)
        raw_amount == Cell(df, row_idx, 1)
        category == StrStrip(PyStr(raw_category))
        amount == ParseDecimal(raw_amount)
    IN  IF IsBlank(raw_category) THEN st
        ELSE IF StrUpper(category) \notin {StrUpper(name) : name \in self.income_categories} THEN st
        ELSE IF IsRaise(amount) THEN [st EXCEPT !.raised = TRUE]
        ELSE IncomeVerticalScan(self, df, row_idx + 1,
                [st EXCEPT !.records = Append(@, [category |-> category, amount |-> amount.h,
                                                  row |-> row_idx])])

IncomeFrom(self, df, income_col, header) ==
    IF income_col # -1
    THEN RecordsResult(IncomeHorizontalScan(df, income_col, 1, IncomeInit))
    ELSE IF header = -1 THEN ListResult(<<>>)
    ELSE RecordsResult(IncomeVerticalScan(self, df, header + 1, IncomeInit))

ExtractIncomeRecords(self, is_readable, df) ==
    IF ~is_readable THEN ListResult(<<>>)
    ELSE IF DfEmpty(df) THEN ListResult(<<>>)
    ELSE IncomeFrom(self, df, FindIncomeCol(df, 0), FindInColumn0(df, 0, <<"DOHOD", "Y">>))

----------------------------------------------------------------------------
(* extract_notes_entries *)

\* str(cell).strip() of a cell that is neither None nor NaN, else ''
CellText(cell) == IF IsBlank(cell) THEN <<>> ELSE StrStrip(PyStr(cell))

\* the first data row of the notes: the rows with both cells None are stepped
\* over; a row naming 'dolg' is the column header row and data starts below it
RECURSIVE NotesSkipHeader(_, _, _, _)
NotesSkipHeader(df, notes_col, row_idx, start_row) ==
    IF row_idx >= NRows(df) THEN start_row
    ELSE
    LET left_cell == Cell(df, row_idx, notes_col)
        right_cell == Cell(df, row_idx, notes_col + 1)
        left_text == IF left_cell.t = "none" THEN <<>> ELSE StrLower(StrStrip(PyStr(left_cell)))
        right_text == IF right_cell.t = "none" THEN <<>> ELSE StrLower(StrStrip(PyStr(right_cell)))
    IN  IF left_cell.t = "none" /\ right_cell.t = "none"
        THEN NotesSkipHeader(df, notes_col, row_idx + 1, start_row)
        ELSE IF StrIn(<<"dolg">>, left_text) \/ StrIn(<<"dolg">>, right_text) THEN row_idx + 1
        ELSE row_idx

NotesInit ==
    [without_cash |-> <<>>, with_cash |-> <<>>, extra_notes |-> <<>>,
     left_done |-> FALSE, right_done |-> FALSE, raised |-> FALSE]

NotesEntry(text, is_total, amount, row_idx) ==
    [entry_text |-> text, is_total |-> is_total, amount |-> amount, row |-> row_idx]

RECURSIVE NotesScan(_, _, _, _)
NotesScan(df, notes_col, row_idx, st) ==
    IF row_idx >= NRows(df) THEN st
    ELSE
    LET left_cell == Cell(df, row_idx, notes_col)
        right_cell == Cell(df, row_idx, notes_col + 1)
        left_text == CellText(left_cell)
        right_text == CellText(right_cell)
        left_lower == StrLower(left_text)
        right_lower == StrLower(right_text)
        left_total == StrStartsWith(left_lower, <<"itogo">>)
        right_total == StrStartsWith(right_lower, <<"itogo">>)
        left_amount == ParseDecimal(Str(AfterLastColon(left_text)))
        right_amount == ParseDecimal(Str(AfterLastColon(right_text)))
        processed_left == left_text # <<>> /\ ~st.left_done
        processed_right == right_text # <<>> /\ ~st.right_done
        left_done == st.left_done \/ (processed_left /\ left_total)
        right_done == st.right_done \/ (processed_right /\ right_total)
        without_cash ==
            IF processed_left
            THEN Append(st.without_cash,
                    NotesEntry(left_text, left_total,
                               IF left_total THEN Some(left_amount.h) ELSE None, row_idx))
            ELSE st.without_cash
        with_cash ==
            IF processed_right
            THEN Append(st.with_cash,
                    NotesEntry(right_text, right_total,
                               IF right_total THEN Some(right_amount.h) ELSE None, row_idx))
            ELSE st.with_cash
        combined == IF left_text # <<>> /\ right_text # <<>> THEN left_text \o <<" ">> \o right_text
                    ELSE left_text \o right_text
        extra_notes ==
            IF left_done /\ right_done /\ ~(processed_left \/ processed_right) THEN
                IF combined # <<>> THEN Append(st.extra_notes, combined) ELSE st.extra_notes
            ELSE IF ~processed_left /\ left_text # <<>> THEN Append(st.extra_notes, left_text)
            ELSE IF ~processed_right /\ right_text # <<>> THEN Append(st.extra_notes, right_text)
            ELSE st.extra_notes
    IN  IF left_cell.t = "none" /\ right_cell.t = "none"
        THEN NotesScan(df, notes_col, row_idx + 1, st)
        ELSE IF \E word \in {<<"dohod">>, <<"rashod">>, <<"pribyl">>} :
                    StrIn(word, left_lower) \/ StrIn(word, right_lower)
        THEN st
        ELSE NotesScan(df, notes_col, row_idx + 1,
                [st EXCEPT !.without_cash = without_cash, !.with_cash = with_cash,
                           !.extra_notes = extra_notes,
                           !.left_done = left_done, !.right_done = right_done])

\* a notes result that leaves the unclassified lines out
NotesResultNoExtra(st) ==
    [res |-> "notes", beznal |-> st.without_cash, nal |-> st.with_cash, extra |-> <<>>]

NotesResult(st) ==
    [res |-> "notes", beznal |-> st.without_cash, nal |-> st.with_cash,
     extra |-> st.extra_notes]

NotesFrom(df, found) ==
    IF found[1] = -1 THEN EmptyResult
    ELSE NotesResult(NotesScan(df, found[2],
                               NotesSkipHeader(df, found[2], found[1] + 1, found[1] + 1),
                               NotesInit))

ExtractNotesEntries(is_readable, df) ==
    IF ~is_readable THEN EmptyResult
    ELSE IF DfEmpty(df) THEN EmptyResult
    ELSE NotesFrom(df, FindAnywhere(df, <<"primechan">>))

----------------------------------------------------------------------------
(* extract_totals_summary *)

\* <<start_row, balance_col>> from the first cell, in row-major order, that
\* contains 'dohod' and has a text containing 'rashod' right of it
FindTotalsHeader(df) ==
    LET hits == {rc \in (0..(NRows(df) - 1)) \X (0..(NCols(df) - 1)) :
                    /\ CellHas(df, rc[1], rc[2], <<"dohod">>)
                    /\ LET next_cell == Cell(df, rc[1], rc[2] + 1)
                       IN  /\ IsStr(next_cell) /\ next_cell.s # <<>>
                           /\ StrIn(<<"rashod">>, StrLower(StrStrip(next_cell.s)))}
        first == CHOOSE rc \in hits :
                    \A o \in hits : rc[1] < o[1] \/ (rc[1] = o[1] /\ rc[2] <= o[2])
    IN  IF hits = {} THEN <<-1, -2>> ELSE <<first[1] + 1, first[2] - 1>>

ExpectedTypes == {<<"nalichnye">>, <<"b/n">>, <<"itogo">>}

RECURSIVE TotalsScan(_, _, _, _, _)
TotalsScan(df, balance_col, row_idx, stop_row, st) ==
    IF row_idx >= stop_row THEN st
    ELSE
    LET type_cell == Cell(df, row_idx, balance_col)
        income_cell == Cell(df, row_idx, balance_col + 1)
        expense_cell == Cell(df, row_idx, balance_col + 2)
        net_cell == Cell(df, row_idx, balance_col + 3)
        payment_type == StrStrip(PyStr(type_cell))
        income == ParseDecimal(income_cell)
        expense == ParseDecimal(expense_cell)
        net == ParseDecimal(net_cell)
    IN  IF IsBlank(type_cell) THEN st
        ELSE IF StrLower(payment_type) \notin ExpectedTypes THEN st
        ELSE IF IsRaise(income) \/ IsRaise(expense) \/ IsRaise(net)
             THEN [st EXCEPT !.raised = TRUE]
        ELSE TotalsScan(df, balance_col, row_idx + 1, stop_row,
                [st EXCEPT !.records = Append(@,
                    [payment_type |-> payment_type, income_amount |-> income.h,
                     expense_amount |-> expense.h, net_profit |-> net.h, row |-> row_idx])])

TotalsFrom(df, found) ==
    IF found[1] = -1 THEN ListResult(<<>>)
    ELSE RecordsResult(TotalsScan(df, found[2], found[1],
                                  Min(found[1] + 5, NRows(df)), IncomeInit))

ExtractTotalsSummary(is_readable, df) ==
    IF ~is_readable THEN ListResult(<<>>)
    ELSE IF DfEmpty(df) THEN ListResult(<<>>)
    ELSE TotalsFrom(df, FindTotalsHeader(df))

----------------------------------------------------------------------------
(* Inputs of _parse_decimal *)

SeqsUpTo(S, n) == UNION {[1..k -> S] : k \in 0..n}

ParseUnits == {"0", "1", "5", ",", ".", "-", " ", "a"}

SampleStrings ==
    {<<"8", ".", "0", "0", "0">>, <<"1", "2", ",", "5", "0">>, <<"a", "b", "c">>,
     <<"0", ".", "0", "1", "5">>, <<"1", ",", "0", "0", "0", ".", "5", "0">>,
     <<"1", "2", "0", " ", "0", "0", "0", " ", "rub">>}

RawValues ==
    {Str(s) : s \in SeqsUpTo(ParseUnits, MaxStrLen) \cup SampleStrings}
    \cup {Val("float", m, <<>>) : m \in (-MaxMilli)..MaxMilli}
    \cup {Val("decimal", m, <<>>) : m \in {-5, 0, 5, 25}}
    \cup {IntCell(n) : n \in {-1, 0, 1, 120000}}
    \cup {NoneVal, NaN, BoolTrue, Val("bool", 0, <<>>),
          Val("float_inf", 0, <<>>), Val("float_big", 0, <<>>), Val("int_big", 0, <<>>),
          Val("decimal_nan", 0, <<>>), Val("other", 0, <<>>)}

NotParsed == [k |-> "none", h |-> 0]

InitParse ==
    /\ raw \in RawValues
    /\ parsed = NotParsed
    /\ readable = TRUE
    /\ grid = <<>>
    /\ proc = ProcInit
    /\ call = "idle"
    /\ out = NoResult
    /\ memo = NoResult
    /\ interleaved = FALSE
    /\ NoStore

CallParseDecimal ==
    /\ call = "idle"
    /\ call' = "_parse_decimal"
    /\ parsed' = ParseDecimal(raw)
    /\ UNCHANGED <<raw, readable, grid, proc, out, memo, interleaved, store>>

CallParseInt ==
    /\ call = "idle"
    /\ call' = "_parse_int"
    /\ parsed' = ParseInt(raw)
    /\ UNCHANGED <<raw, readable, grid, proc, out, memo, interleaved, store>>

NextParse == CallParseDecimal \/ CallParseInt

SpecParse == InitParse /\ [][NextParse]_vars

----------------------------------------------------------------------------
(* Sheets *)

T(s) == Str(s)
Blank3 == <<NaN, NaN, NaN>>
Blank4 == <<NaN, NaN, NaN, NaN>>

\* payments and staff statistics: label in column 0, figure in column 2
PayHeader == <<T(<<"Nalichnye">>), NaN, Num(10)>>
PayRows ==
    {<<T(<<"Taksi">>), NaN, Num(10)>>,
     <<T(<<"Itogo", " ", "kassa">>), NaN, Num(10)>>,
     <<T(<<"ITOGO">>), NaN, Num(20)>>,
     Blank3,
     <<T(<<"Statistika", " ", "personal", "a">>), NaN, NaN>>,
     <<T(<<" ">>), NaN, Num(10)>>,
     <<T(<<"Taksi">>), NaN, BoolTrue>>}

\* payments whose anchor stands in column 1
PayAsideHeader == <<NaN, T(<<"Nalichnye">>), Num(10)>>
PayAsideRows == {<<T(<<"Taksi">>), NaN, Num(10)>>, Blank3}

\* payments whose total row carries no amount
PayBlankTotalRows == {<<T(<<"Taksi">>), NaN, Num(10)>>, <<T(<<"ITOGO">>), NaN, NaN>>}

\* ticket sales and the vertical income block: columns 0..2
TicketsHeader == <<T(<<"Vhodnye bilety">>), NaN, NaN>>
TicketsRows ==
    {<<T(<<"cena">>), T(<<"kol">>), T(<<"summa">>)>>,
     <<IntCell(500), IntCell(1), Num(10)>>,
     <<T(<<"Itogo">>), IntCell(2), Num(20)>>,
     Blank3,
     <<T(<<"DOHOD", "Y">>), NaN, NaN>>,
     <<T(<<"Bar">>), Num(10), NaN>>}

\* ticket sales whose header row names the price and the quantity only
TicketsShortHeaderRows ==
    {<<T(<<"cena">>), T(<<"kol">>), NaN>>,
     <<IntCell(500), IntCell(1), Num(10)>>}

\* the horizontal income block and the expenses: label, then the first figure
\* among the next five cells
IncomeHeader == <<T(<<"DOHOD", "Y">>), NaN, NaN, T(<<"VHODNYE BILETY">>)>>
IncomeRows ==
    {<<T(<<"Bar">>), Num(10), NaN, NaN>>,
     <<T(<<"Itogo", " ", "za", " ", "smen", "u">>), Num(20), NaN, NaN>>,
     Blank4,
     <<T(<<"Vhodnye bilety">>), NaN, NaN, NaN>>,
     <<T(<<"Rashod", "y">>), NaN, NaN, NaN>>,
     <<T(<<"Taksi">>), T(<<"a">>), NaN, Num(10)>>,
     <<IntCell(500), Num(10), NaN, NaN>>}

\* cash collection: currency, quantity, rate, amount
CashHeader == <<T(<<"Inkassaciya">>), NaN, NaN, NaN>>
CashColumns == <<NaN, T(<<"kol">>), T(<<"kurs">>), T(<<"summa">>)>>
CashRows ==
    {CashColumns,
     <<T(<<"usd">>), IntCell(1), Num(10), NaN>>,
     <<T(<<"rub">>), NaN, NaN, Num(10)>>,
     <<T(<<"Itogo">>), NaN, NaN, Num(20)>>,
     Blank4,
     <<IntCell(500), NaN, NaN, Num(10)>>,
     <<T(<<"Primechan", "iya">>), NaN, NaN, NaN>>}

\* cash rows that carry quantity, rate and an amount cell holding 0
CashZeroRows ==
    {<<T(<<"usd">>), IntCell(1), Num(10), NaN>>,
     <<T(<<"eur">>), IntCell(1), Num(10), Num(0)>>,
     <<T(<<"Itogo">>), NaN, NaN, Num(20)>>}

\* staff debts: a cash block of fixed shape whose total row is five rows below
\* its header, one row between, then type and amount of each debt
DebtsPrefix(total_row) ==
    <<CashHeader, CashColumns,
      <<T(<<"usd">>), IntCell(1), Num(10), NaN>>,
      <<T(<<"rub">>), NaN, NaN, Num(10)>>,
      Blank4, total_row, Blank4>>
CashTotalRows ==
    {<<T(<<"Itogo">>), NaN, NaN, Num(20)>>,
     <<T(<<"Itogo">>), NaN, NaN, T(<<"2", "0">>)>>,
     <<T(<<"rub">>), NaN, NaN, Num(20)>>}
DebtsRows ==
    {<<T(<<"Dolg">>), Num(10), NaN, NaN>>,
     <<T(<<"Itogo">>), Num(20), NaN, NaN>>,
     Blank4,
     <<IntCell(500), Num(10), NaN, NaN>>,
     <<T(<<"Primechan", "iya">>), NaN, NaN, NaN>>}

\* notes in two columns and the closing balance
NotesHeader == <<T(<<"Primechan", "iya">>), NaN, NaN, NaN>>
NotesRows ==
    {<<T(<<"Dolg">>), T(<<"Dolg">>), NaN, NaN>>,
     <<T(<<"Taksi">>), T(<<"Bar">>), NaN, NaN>>,
     <<T(<<"Itogo", ":", "1", "0">>), NaN, NaN, NaN>>,
     <<NaN, T(<<"itogo", ":", "5">>), NaN, NaN>>,
     <<NaN, T(<<"Dohod">>), T(<<"Rashod">>), T(<<"Pribyl">>)>>,
     <<T(<<"nalichnye">>), Num(10), Num(10), Num(0)>>}

\* a balance block whose header starts in the first column of the sheet
TotalsEdgeHeader == <<T(<<"Dohod">>), T(<<"Rashod">>), T(<<"Pribyl">>), NaN>>
TotalsEdgeRows ==
    {<<Num(10), Num(10), Num(0), T(<<"nalichnye">>)>>,
     <<T(<<"nalichnye">>), Num(10), Num(10), Num(0)>>}

\* the sheet read from the bytes is an optional header row followed by up to
\* n rows of one block
Sheets(header, rows, n) ==
    \E k \in 0..n : \E body \in [1..k -> rows] : \E prefix \in {<<>>, <<header>>} :
        grid = prefix \o body

DebtsSheets(n) ==
    \E k \in 0..n : \E body \in [1..k -> DebtsRows] : \E total_row \in CashTotalRows :
        grid = DebtsPrefix(total_row) \o body

Grids(n) ==
    \/ Sheets(PayHeader, PayRows, n) \/ Sheets(TicketsHeader, TicketsRows, n)
    \/ Sheets(IncomeHeader, IncomeRows, n) \/ Sheets(CashHeader, CashRows, n)
    \/ Sheets(NotesHeader, NotesRows, n) \/ DebtsSheets(n)
    \/ Sheets(PayAsideHeader, PayAsideRows, n) \/ Sheets(CashHeader, CashZeroRows, n)
    \/ Sheets(PayHeader, PayBlankTotalRows, n) \/ Sheets(TicketsHeader, TicketsShortHeaderRows, n)
    \/ Sheets(TotalsEdgeHeader, TotalsEdgeRows, n)

----------------------------------------------------------------------------
(* One extraction call on one uploaded file *)

InitExtract ==
    /\ raw = NoneVal
    /\ parsed = NotParsed
    /\ \/ readable = TRUE /\ Grids(MaxRows)
       \/ readable = FALSE /\ grid = <<>>
    /\ proc = ProcInit
    /\ call = "idle"
    /\ out = NoResult
    /\ memo = NoResult
    /\ interleaved = FALSE
    /\ NoStore

Called(name, result) ==
    /\ call = "idle"
    /\ call' = name
    /\ out' = result
    /\ UNCHANGED <<raw, parsed, readable, grid, proc, memo, interleaved, store>>

CallIncome == Called("extract_income_records", ExtractIncomeRecords(proc, readable, grid))
CallTickets == Called("extract_ticket_sales", ExtractTicketSales(readable, grid))
CallPayments == Called("extract_payment_types", ExtractPaymentTypes(readable, grid))
CallStaff == Called("extract_staff_statistics", ExtractStaffStatistics(readable, grid))
CallExpenses == Called("extract_expense_records", ExtractExpenseRecords(readable, grid))
CallCash == Called("extract_cash_collection", ExtractCashCollection(readable, grid))
CallDebts == Called("extract_staff_debts", ExtractStaffDebts(readable, grid))
CallNotes == Called("extract_notes_entries", ExtractNotesEntries(readable, grid))
CallTotals == Called("extract_totals_summary", ExtractTotalsSummary(readable, grid))

NextExtract ==
    \/ CallIncome \/ CallTickets \/ CallPayments \/ CallStaff \/ CallExpenses
    \/ CallCash \/ CallDebts \/ CallNotes \/ CallTotals

SpecExtract == InitExtract /\ [][NextExtract]_vars

----------------------------------------------------------------------------
(* Repeated extraction calls on one file, in any order *)

InitRepeat ==
    /\ raw = NoneVal
    /\ parsed = NotParsed
    /\ readable = TRUE
    /\ Grids(MaxRepeatRows)
    /\ proc = ProcInit
    /\ call = "idle"
    /\ out = NoResult
    /\ memo = NoResult
    /\ interleaved = FALSE
    /\ NoStore

SelfAfterForgetting(self, name, result) ==
    IF name = "extract_income_records" /\ result.res = "list"
    THEN [self EXCEPT !.income_categories =
            {c \in @ : \A i \in 1..Len(result.records) :
                            StrUpper(c) # StrUpper(result.records[i].category)}]
    ELSE self

\* the ExcelProcessor instance after a call: no extractor assigns to self
\* (observed_categories of _extract_income_vertical is a local)
SelfAfter(self, name, result) == self

Recalled(name, result) ==
    /\ call' = name
    /\ out' = result
    /\ memo' = IF memo = NoResult THEN [res |-> "memo", name |-> name, result |-> result]
               ELSE memo
    /\ interleaved' = (memo # NoResult /\ (interleaved \/ name # memo.name))
    /\ proc' = SelfAfter(proc, name, result)
    /\ UNCHANGED <<raw, parsed, readable, grid, store>>

RecallIncome == Recalled("extract_income_records", ExtractIncomeRecords(proc, readable, grid))
RecallTickets == Recalled("extract_ticket_sales", ExtractTicketSales(readable, grid))
RecallPayments == Recalled("extract_payment_types", ExtractPaymentTypes(readable, grid))
RecallStaff == Recalled("extract_staff_statistics", ExtractStaffStatistics(readable, grid))
RecallExpenses == Recalled("extract_expense_records", ExtractExpenseRecords(readable, grid))
RecallCash == Recalled("extract_cash_collection", ExtractCashCollection(readable, grid))
RecallDebts == Recalled("extract_staff_debts", ExtractStaffDebts(readable, grid))
RecallNotes == Recalled("extract_notes_entries", ExtractNotesEntries(readable, grid))
RecallTotals == Recalled("extract_totals_summary", ExtractTotalsSummary(readable, grid))

NextRepeat ==
    \/ RecallIncome \/ RecallTickets \/ RecallPayments \/ RecallStaff \/ RecallExpenses
    \/ RecallCash \/ RecallDebts \/ RecallNotes \/ RecallTotals

SpecRepeat == InitRepeat /\ [][NextRepeat]_vars

Spec == SpecExtract

----------------------------------------------------------------------------
(* Properties *)

ReconciledCalls ==
    {"extract_payment_types", "extract_expense_records",
     "extract_cash_collection", "extract_staff_debts"}

TotalLineCalls == ReconciledCalls \cup {"extract_ticket_sales"}

ExtractCalls ==
    {"extract_income_records", "extract_ticket_sales", "extract_payment_types",
     "extract_staff_statistics", "extract_expense_records", "extract_cash_collection",
     "extract_staff_debts", "extract_notes_entries", "extract_totals_summary"}

TotalRecords(records) == {i \in 1..Len(records) : records[i].is_total}

IsCashTotal(record) == "is_cash_total" \in DOMAIN record /\ record.is_cash_total

RECURSIVE SumAmounts(_)
SumAmounts(records) ==
    IF records = <<>> THEN 0 ELSE Head(records).amount + SumAmounts(Tail(records))

\* C1: for payments, expenses, cash and debts totals_match is true exactly
\* when no total row was read or the total row's amount differs from
\* calculated_total by at most 0.01
C1_TotalsMatchTolerance ==
    (call \in ReconciledCalls /\ out.res = "dict") =>
        (out.totals_match <=>
            \A i \in TotalRecords(out.records) :
                Abs(out.records[i].amount - out.calculated_total) <= 1)

C1_Witness ==
    /\ call \in ReconciledCalls /\ out.res = "dict"
    /\ out.totals_match
    /\ \E i \in TotalRecords(out.records) :
            Abs(out.records[i].amount - out.calculated_total) = 1

\* C2 as stated: calculated_total is the sum of the amounts of all returned
\* records whose is_total flag is false
C2_SumOfNonTotalRecords ==
    (call \in ReconciledCalls /\ out.res = "dict") =>
        out.calculated_total = SumAmounts(SelectSeq(out.records, LAMBDA r : ~r.is_total))

\* C2 amended: calculated_total is the sum of the amounts of the returned
\* records that are neither the total nor the ITOGO KASSA subtotal
C2_SumOfLineItems ==
    (call \in ReconciledCalls /\ out.res = "dict") =>
        out.calculated_total =
            SumAmounts(SelectSeq(out.records, LAMBDA r : ~r.is_total /\ ~IsCashTotal(r)))

C2_Witness ==
    /\ call = "extract_payment_types" /\ out.res = "dict"
    /\ \E i \in 1..Len(out.records) : IsCashTotal(out.records[i]) /\ out.records[i].amount > 0
    /\ out.calculated_total > 1

\* C3: a scan of payments, expenses, cash or debts that read no total row
\* reports reported_total = calculated_total and totals_match = true
C3_NoTotalFallsBack ==
    (call \in ReconciledCalls /\ out.res = "dict" /\ TotalRecords(out.records) = {}) =>
        (out.reported_total = out.calculated_total /\ out.totals_match)

C3_Witness ==
    /\ call \in ReconciledCalls /\ out.res = "dict"
    /\ TotalRecords(out.records) = {}
    /\ out.calculated_total > 0

\* C4: in the records of tickets, payments, expenses, cash and debts only the
\* last record can be a total record
C4_TotalIsLast ==
    (call \in TotalLineCalls /\ out.res = "dict") =>
        \A i \in TotalRecords(out.records) : i = Len(out.records)

\* a total record was emitted and a labelled row follows it in the sheet
C4_Witness ==
    /\ call \in TotalLineCalls /\ out.res = "dict"
    /\ Len(out.records) >= 2
    /\ LET last == out.records[Len(out.records)]
       IN  /\ last.is_total
           /\ last.row + 1 < NRows(grid)
           /\ IsStr(Iloc(grid, last.row + 1, 0))

\* C5 as stated: _parse_decimal never raises
C5_NeverRaises ==
    call = "_parse_decimal" => ~IsRaise(parsed)

\* C6 as stated: "8.000" is 8000.00, "12,50" is 12.50, "" and "abc" are 0
C6_ThousandsAndDecimalMark ==
    call = "_parse_decimal" =>
        /\ raw = Str(<<"8", ".", "0", "0", "0">>) => parsed = Dec(800000)
        /\ raw = Str(<<"1", "2", ",", "5", "0">>) => parsed = Dec(1250)
        /\ raw = Str(<<>>) => parsed = Dec(0)
        /\ raw = Str(<<"a", "b", "c">>) => parsed = Dec(0)

\* some cell of the sheet is a text containing every word of the phrase,
\* whatever its letter case
PhraseAnywhere(df, words) ==
    \E r \in 1..Len(df) : \E c \in 1..Len(df[r]) :
        IsStr(df[r][c]) /\ \A w \in words : StrIn(w, StrLower(df[r][c].s))

AnchorWords ==
    [extract_income_records |-> {<<"dohod">>},
     extract_ticket_sales |-> {<<"vhodnye bilety">>},
     extract_payment_types |-> {<<"nalichnye">>},
     extract_staff_statistics |-> {<<"statistika">>, <<"personal">>},
     extract_expense_records |-> {<<"rashod">>},
     extract_cash_collection |-> {<<"inkassaciya">>},
     extract_staff_debts |-> {<<"inkassaciya">>},
     extract_notes_entries |-> {<<"primechan">>},
     extract_totals_summary |-> {<<"dohod">>}]

IsEmptyOut(o) == o.res = "empty" \/ (o.res = "list" /\ o.records = <<>>)

\* C7: a block whose anchor phrase is in no cell of the sheet yields an empty
\* result and no error, whichever other blocks the sheet holds
C7_MissingBlockIsEmpty ==
    (call \in ExtractCalls /\ readable /\ ~PhraseAnywhere(grid, AnchorWords[call])) =>
        IsEmptyOut(out)

\* the payments anchor is missing from a sheet that holds a staff block
C7_Witness ==
    /\ call = "extract_payment_types" /\ readable
    /\ ~PhraseAnywhere(grid, AnchorWords[call])
    /\ PhraseAnywhere(grid, AnchorWords["extract_staff_statistics"])
    /\ NRows(grid) >= 3
    /\ IsEmptyOut(out)

\* C8 as stated: unreadable bytes make every extract call fail with an error
C8_LoadErrorSurfaced ==
    (call \in ExtractCalls /\ ~readable) => (out.res = "raise" /\ ~IsEmptyOut(out))

LabelCol(name, df) ==
    CASE name = "extract_income_records" ->
            IF FindIncomeCol(df, 0) # -1 THEN FindIncomeCol(df, 0) ELSE 0
      [] name = "extract_expense_records" -> FindAnywhere(df, <<"rashod">>)[2]
      [] name = "extract_cash_collection" -> FindAnywhere(df, <<"inkassaciya">>)[2]
      [] name = "extract_staff_debts" -> FindCashItogo(df)[2]
      [] name = "extract_totals_summary" -> FindTotalsHeader(df)[2]
      [] OTHER -> 0

\* the cell is a text holding the anchor phrase of a block other than name's
OtherAnchorText(name, cell) ==
    /\ IsStr(cell)
    /\ \E other \in ExtractCalls :
        /\ AnchorWords[other] # AnchorWords[name]
        /\ \A w \in AnchorWords[other] : StrIn(w, StrLower(cell.s))

\* C10 as stated: when the row below an emitted data row carries another
\* block's anchor text in the label column, no record comes from that row or
\* from a row after it
C10_StopsAtNextAnchor ==
    (call \in ExtractCalls /\ out.res \in {"dict", "list"}) =>
        \A i \in 1..Len(out.records) :
            LET r == out.records[i].row + 1
            IN  (r < NRows(grid) /\ OtherAnchorText(call, Cell(grid, r, LabelCol(call, grid))))
                    => \A j \in 1..Len(out.records) : out.records[j].row < r

----------------------------------------------------------------------------
(* The income and ticket extractors on sheets built around the example of a
   'DOHODY' header row that also names 'VHODNYE BILETY' in column 3 *)

ExampleRows ==
    {<<T(<<"Bar">>), IntCell(120000), NaN, NaN>>,
     <<T(<<"Itogo", " ", "za", " ", "smen", "u">>), IntCell(500000), NaN, NaN>>,
     <<T(<<"Bar">>), NaN, NaN, IntCell(500)>>,
     <<T(<<"Itogo", " ", "za", " ", "smen", "u">>), NaN, NaN, NaN>>,
     Blank4}

ExampleGrid ==
    <<IncomeHeader,
      <<T(<<"Bar">>), IntCell(120000), NaN, NaN>>,
      <<T(<<"Itogo", " ", "za", " ", "smen", "u">>), IntCell(500000), NaN, NaN>> >>

InitExample ==
    /\ raw = NoneVal
    /\ parsed = NotParsed
    /\ readable = TRUE
    /\ Sheets(IncomeHeader, ExampleRows, MaxRows)
    /\ proc = ProcInit
    /\ call = "idle"
    /\ out = NoResult
    /\ memo = NoResult
    /\ interleaved = FALSE
    /\ NoStore

NextExample == CallIncome \/ CallTickets

SpecExample == InitExample /\ [][NextExample]_vars

\* the (category, amount) pairs of a list of income records, in order
CategoryAmounts(records) ==
    [i \in 1..Len(records) |-> <<records[i].category, records[i].amount>>]

\* C11: on the example sheet extract_income_records returns exactly the two
\* records (Bar, 120000.00) and (Itogo za smenu, 500000.00), in this order,
\* and extract_ticket_sales returns no records
C11_EndToEndExample ==
    grid = ExampleGrid =>
        /\ call = "extract_income_records" =>
                /\ out.res = "list"
                /\ CategoryAmounts(out.records)
                        = << <<<<"Bar">>, 12000000>>,
                             <<<<"Itogo", " ", "za", " ", "smen", "u">>, 50000000>> >>
        /\ call = "extract_ticket_sales" => out = EmptyResult

C11_Witness ==
    /\ grid = ExampleGrid
    /\ call = "extract_income_records"
    /\ Len(out.records) = 2

----------------------------------------------------------------------------
(* Uploads and re-processings: the extracted records of each block are kept
   in the block's table under the file's id (src/database.py, src/bot.py) *)

MaxFiles == 2
MaxStoreRows == 1

\* the order in which handle_document runs the blocks
UploadOrder ==
    <<"extract_income_records", "extract_ticket_sales", "extract_payment_types",
      "extract_staff_statistics", "extract_expense_records", "extract_staff_debts",
      "extract_cash_collection", "extract_notes_entries", "extract_totals_summary">>

\* the order of the 'reprocess all' callback
CallbackOrder ==
    <<"extract_income_records", "extract_ticket_sales", "extract_payment_types",
      "extract_staff_statistics", "extract_expense_records", "extract_cash_collection",
      "extract_staff_debts", "extract_notes_entries", "extract_totals_summary">>

\* reprocess_last_file re-derives two blocks only
ReprocessOrder == <<"extract_income_records", "extract_ticket_sales">>

BlockKinds == {UploadOrder[i] : i \in 1..Len(UploadOrder)}

ExtractKind(self, kind, df) ==
    CASE kind = "extract_income_records" -> ExtractIncomeRecords(self, TRUE, df)
      [] kind = "extract_ticket_sales" -> ExtractTicketSales(TRUE, df)
      [] kind = "extract_payment_types" -> ExtractPaymentTypes(TRUE, df)
      [] kind = "extract_staff_statistics" -> ExtractStaffStatistics(TRUE, df)
      [] kind = "extract_expense_records" -> ExtractExpenseRecords(TRUE, df)
      [] kind = "extract_cash_collection" -> ExtractCashCollection(TRUE, df)
      [] kind = "extract_staff_debts" -> ExtractStaffDebts(TRUE, df)
      [] kind = "extract_notes_entries" -> ExtractNotesEntries(TRUE, df)
      [] kind = "extract_totals_summary" -> ExtractTotalsSummary(TRUE, df)

\* the rows the handlers hand to save_<kind>: the 'records' of a mapping, the
\* list itself, or the three note sequences flattened into one list
RecordsToSave(result) ==
    IF result.res \in {"dict", "list"} THEN result.records
    ELSE IF result.res = "notes" THEN
        [i \in 1..Len(result.beznal) |->
            [category |-> <<"beznal">>, entry |-> result.beznal[i]]]
        \o [i \in 1..Len(result.nal) |->
            [category |-> <<"nal">>, entry |-> result.nal[i]]]
        \o [i \in 1..Len(result.extra) |->
            [category |-> <<"prochee">>, entry |-> result.extra[i]]]
    ELSE <<>>

\* a save that inserts without deleting the rows stored for the file
SaveRecordsAppending(table, file_id, records) ==
    IF records = <<>> THEN table
    ELSE table \o [i \in 1..Len(records) |-> [file_id |-> file_id, rec |-> records[i]]]

\* save_<kind>(file_id, records): nothing when there are no records; else
\* DELETE ... WHERE file_id, then INSERT of every record, in one transaction
SaveRecords(table, file_id, records) ==
    IF records = <<>> THEN table
    ELSE SelectSeq(table, LAMBDA r : r.file_id # file_id)
         \o [i \in 1..Len(records) |-> [file_id |-> file_id, rec |-> records[i]]]

\* list_<kind>(file_id): SELECT ... WHERE file_id ORDER BY id
ListRecords(table, file_id) ==
    LET rows == SelectSeq(table, LAMBDA r : r.file_id = file_id)
    IN  [i \in 1..Len(rows) |-> rows[i].rec]

NoTables == [kind \in BlockKinds |-> <<>>]
NoRecords == [kind \in BlockKinds |-> <<>>]

\* the extract-and-save steps of a handler: <<file_id, kind>> for every block
\* of one file, in the handler's order
FileJobs(file_id, order) == [i \in 1..Len(order) |-> <<file_id, order[i]>>]

\* the callback's steps: every stored file, newest first
RECURSIVE CallbackJobs(_)
CallbackJobs(file_id) ==
    IF file_id < 1 THEN <<>>
    ELSE FileJobs(file_id, CallbackOrder) \o CallbackJobs(file_id - 1)

\* the first step after i that belongs to another file
RECURSIVE NextFileJob(_, _)
NextFileJob(jobs, i) ==
    IF i + 1 > Len(jobs) \/ jobs[i + 1][1] # jobs[i][1] THEN i + 1
    ELSE NextFileJob(jobs, i + 1)

\* what each step's extractor returns: a function of the stored bytes alone
Extracted(self, jobs) ==
    [j \in 1..Len(jobs) |-> ExtractKind(self, jobs[j][2], files'[jobs[j][1]])]

\* One extract-and-save step of a handler, then the rest of its steps; an
\* exception of an extractor ends the handler's work on that file.
RECURSIVE RunBlocks(_, _, _, _)
RunBlockResult(jobs, results, i, st, result) ==
    IF result.res = "raise"
    THEN [next |-> NextFileJob(jobs, i),
          st |-> [st EXCEPT !.latest[jobs[i][1]][jobs[i][2]] = <<>>]]
    ELSE [next |-> i + 1,
          st |-> [st EXCEPT !.db[jobs[i][2]] = SaveRecords(@, jobs[i][1], RecordsToSave(result)),
                            !.latest[jobs[i][1]][jobs[i][2]] = RecordsToSave(result)]]

RunBlocks(jobs, results, i, st) ==
    IF i > Len(jobs) THEN st
    ELSE CHOOSE after \in {RunBlocks(jobs, results, step.next, step.st) :
                                step \in {RunBlockResult(jobs, results, i, st, results[i])}} : TRUE

\* the tables and the record of the latest extractions after a handler ran
Stored(st) == db' = st.db /\ latest' = st.latest

\* a handler's steps run on the tables and end in the stored state
RunHandler(self, jobs, st) ==
    \E results \in {Extracted(self, jobs)} :
        \E after \in {RunBlocks(jobs, results, 1, st)} : Stored(after)

\* the uploaded sheets: a payments block or an income block of a few rows
StorePayRows ==
    {<<T(<<"Taksi">>), NaN, Num(10)>>,
     <<T(<<"ITOGO">>), NaN, Num(20)>>}

StoreIncomeRows ==
    {<<T(<<"Bar">>), Num(10), NaN, NaN>>,
     <<T(<<"Itogo", " ", "za", " ", "smen", "u">>), Num(20), NaN, NaN>>}

StoreSheets ==
    [payments |-> [prefixes |-> {<<PayHeader>>}, rows |-> StorePayRows],
     income |-> [prefixes |-> {<<>>, <<IncomeHeader>>}, rows |-> StoreIncomeRows]]

\* handle_document: the file gets a new id, then every block is extracted
\* from the uploaded bytes and saved
UploadFile ==
    /\ Len(files) < MaxFiles
    /\ \E block \in DOMAIN StoreSheets : \E k \in 0..MaxStoreRows :
       \E body \in [1..k -> StoreSheets[block].rows] :
       \E prefix \in StoreSheets[block].prefixes :
            /\ prefix \o body # <<>>
            /\ files' = Append(files, prefix \o body)
    /\ RunHandler(proc, FileJobs(Len(files) + 1, UploadOrder),
                  [db |-> IF db = <<>> THEN NoTables ELSE db,
                   latest |-> Append(latest, NoRecords)])
    /\ call' = "handle_document"
    /\ UNCHANGED <<raw, parsed, readable, grid, proc, out, memo, interleaved>>

\* reprocess_last_file re-derives two blocks of the most recently uploaded
\* file; the 'reprocess all' callback re-derives every block of every stored
\* file, newest first; both read the stored bytes
ReprocessJobs(handler) ==
    IF handler = "reprocess_last_file" THEN FileJobs(Len(files), ReprocessOrder)
    ELSE CallbackJobs(Len(files))

ReprocessFiles ==
    /\ files # <<>>
    /\ files' = files
    /\ \E handler \in {"reprocess_last_file", "handle_callback_query"} :
        /\ RunHandler(proc, ReprocessJobs(handler), [db |-> db, latest |-> latest])
        /\ call' = handler
    /\ UNCHANGED <<raw, parsed, readable, grid, proc, out, memo, interleaved>>

InitStore ==
    /\ raw = NoneVal
    /\ parsed = NotParsed
    /\ readable = TRUE
    /\ grid = <<>>
    /\ proc = ProcInit
    /\ call = "idle"
    /\ out = NoResult
    /\ memo = NoResult
    /\ interleaved = FALSE
    /\ NoStore

NextStore == UploadFile \/ ReprocessFiles

SpecStore == InitStore /\ [][NextStore]_vars

----------------------------------------------------------------------------
(* Where each extractor finds its anchor *)

\* the cell an extractor takes as the anchor of its block, as <<row, col>>;
\* <<-1, -1>> when its search finds none
LocatedAnchor(kind, df) ==
    CASE kind = "extract_income_records" ->
            IF FindIncomeCol(df, 0) # -1 THEN <<0, FindIncomeCol(df, 0)>>
            ELSE IF FindInColumn0(df, 0, <<"DOHOD", "Y">>) # -1
                 THEN <<FindInColumn0(df, 0, <<"DOHOD", "Y">>), 0>>
            ELSE <<-1, -1>>
      [] kind = "extract_ticket_sales" ->
            IF FindTicketsStart(df, 0) # -1 THEN <<FindTicketsStart(df, 0) - 1, 0>>
            ELSE <<-1, -1>>
      [] kind = "extract_payment_types" ->
            IF FindInColumn0(df, 0, <<"NALICHNYE">>) # -1
            THEN <<FindInColumn0(df, 0, <<"NALICHNYE">>), 0>>
            ELSE <<-1, -1>>
      [] kind = "extract_staff_statistics" ->
            IF FindStaffHeader(df, 0) # -1 THEN <<FindStaffHeader(df, 0), 0>>
            ELSE <<-1, -1>>
      [] kind = "extract_expense_records" -> FindAnywhere(df, <<"rashod">>)
      [] kind = "extract_cash_collection" -> FindAnywhere(df, <<"inkassaciya">>)
      [] kind = "extract_notes_entries" -> FindAnywhere(df, <<"primechan">>)
      [] kind = "extract_totals_summary" ->
            IF FindTotalsHeader(df)[1] # -1
            THEN <<FindTotalsHeader(df)[1] - 1, FindTotalsHeader(df)[2] + 1>>
            ELSE <<-1, -1>>

\* the first cell in row-major order whose trimmed text contains every word,
\* letter case ignored; <<-1, -1>> when there is none
FirstMatch(df, words) ==
    LET hits == {rc \in (0..(NRows(df) - 1)) \X (0..(NCols(df) - 1)) :
                    \A w \in words : CellHas(df, rc[1], rc[2], w)}
    IN  IF hits = {} THEN <<-1, -1>>
        ELSE CHOOSE rc \in hits :
                \A o \in hits : rc[1] < o[1] \/ (rc[1] = o[1] /\ rc[2] <= o[2])

AnchoredCalls == ExtractCalls \ {"extract_staff_debts"}

\* C13 as stated: each extractor takes as its anchor the first cell, in
\* row-major order over the whole sheet, whose trimmed text contains the
\* block's phrase, letter case ignored
C13_AnchorAnywhere ==
    (call \in AnchoredCalls /\ readable /\ grid # <<>>) =>
        LocatedAnchor(call, grid) = FirstMatch(grid, AnchorWords[call])

----------------------------------------------------------------------------
(* The layout of the income block *)

\* the scan extract_income_records hands the sheet to
IncomeLayout(df) ==
    IF FindIncomeCol(df, 0) # -1 THEN "horizontal"
    ELSE IF FindInColumn0(df, 0, <<"DOHOD", "Y">>) # -1 THEN "vertical"
    ELSE "none"

\* the cell one column to the right of rc, on the same row, holds a number
NumberRightOf(df, rc) ==
    /\ rc[2] + 1 < NCols(df)
    /\ Iloc(df, rc[1], rc[2] + 1).t \in {"int", "float"}

\* C14 as stated: a located income block is scanned horizontally exactly when
\* the cell to the right of its anchor holds a number, and vertically otherwise
C14_LayoutByRightCell ==
    (/\ call = "extract_income_records"
     /\ readable
     /\ grid # <<>>
     /\ IncomeLayout(grid) # "none") =>
        (IncomeLayout(grid) = "horizontal" <=> NumberRightOf(grid, LocatedAnchor(call, grid)))

----------------------------------------------------------------------------
(* Blank label rows inside a block *)

\* the label that closes the block of name: 'Itogo za smenu' for the income,
\* a text with 'itogo' for the others
TotalLabel(name, cell) ==
    /\ IsStr(cell)
    /\ StrIn(<<"itogo">>, StrLower(cell.s))
    /\ name = "extract_income_records" => StrIn(<<"smen">>, StrLower(cell.s))

\* the row below p has an empty label cell and the row after it a total label
BlankThenTotal(name, df, col, p) ==
    /\ p + 2 < NRows(df)
    /\ IsBlank(Cell(df, p + 1, col))
    /\ TotalLabel(name, Cell(df, p + 2, col))

\* the last record of a result comes from row p, a line item
LastLineItem(df, col, records, p) ==
    /\ \E i \in 1..Len(records) : records[i].row = p
    /\ \A i \in 1..Len(records) : records[i].row <= p
    /\ ~StrIn(<<"itogo">>, StrLower(PyStr(Cell(df, p, col))))

\* the scan of name went on past a blank label row that has a total label
\* within the 4 rows below it
SkipsBlankBeforeTotal(name) ==
    (call = name /\ out.res \in {"dict", "list"}) =>
        \A p \in 0..(NRows(grid) - 1) :
            ~(/\ LastLineItem(grid, LabelCol(name, grid), out.records, p)
              /\ BlankThenTotal(name, grid, LabelCol(name, grid), p))

\* C15 as stated, for the blank row directly above a total row: no block scan
\* ends at a blank label row when a total label stands within the next 4 rows
C15_BlankLookAhead ==
    \A name \in {"extract_payment_types", "extract_ticket_sales",
                 "extract_income_records", "extract_expense_records"} :
        SkipsBlankBeforeTotal(name)

----------------------------------------------------------------------------
(* A text where the amount is looked for *)

\* row r lies below name's anchor, its label is a text other than a total
\* label, and the first non-empty cell to its right is a non-numeric text
TextWhereAmount(name, df, r) ==
    /\ LocatedAnchor(name, df)[1] # -1
    /\ LocatedAnchor(name, df)[1] < r
    /\ IsStr(Cell(df, r, LabelCol(name, df)))
    /\ ~TotalLabel(name, Cell(df, r, LabelCol(name, df)))
    /\ ProbeAmount(df, r, LabelCol(name, df), 1).kind = "text"

\* C16 as stated: the horizontal income scan and the expenses scan stop at a
\* row whose first non-empty cell right of the label is a non-numeric text;
\* no record comes from that row or from a row after it
C16_StopsAtTextCandidate ==
    (/\ call \in {"extract_income_records", "extract_expense_records"}
     /\ call = "extract_income_records" => IncomeLayout(grid) = "horizontal"
     /\ out.res \in {"dict", "list"}) =>
        \A r \in 0..(NRows(grid) - 1) :
            TextWhereAmount(call, grid, r) =>
                \A i \in 1..Len(out.records) : out.records[i].row < r

----------------------------------------------------------------------------
(* A number in the label column *)

NumberLabelCalls ==
    {"extract_income_records", "extract_expense_records",
     "extract_cash_collection", "extract_staff_debts"}

\* the first row the scan of name reads; -1 when the block is not located
ScanStart(name, df) ==
    CASE name = "extract_income_records" ->
            IF IncomeLayout(df) = "horizontal" THEN 1 ELSE -1
      [] name = "extract_expense_records" ->
            IF FindAnywhere(df, <<"rashod">>)[1] = -1 THEN -1
            ELSE FindAnywhere(df, <<"rashod">>)[1] + 1
      [] name = "extract_cash_collection" ->
            IF FindAnywhere(df, <<"inkassaciya">>)[1] = -1 THEN -1
            ELSE CashSkipHeader(df, FindAnywhere(df, <<"inkassaciya">>)[2],
                                FindAnywhere(df, <<"inkassaciya">>)[1] + 1,
                                FindAnywhere(df, <<"inkassaciya">>)[1] + 1)
      [] name = "extract_staff_debts" ->
            IF FindCashItogo(df)[1] = -1 THEN -1 ELSE FindCashItogo(df)[1] + 2

\* row r is read by a scan that starts at row start with its labels in
\* column col, and the label cell of r holds a number
NumberLabelAt(df, start, col, r) ==
    /\ start # -1
    /\ start <= r
    /\ r < NRows(df)
    /\ Cell(df, r, col).t \in {"int", "float"}

\* C17: in the horizontal income scan and the expenses, cash and debts scans
\* no record comes from a row whose label cell holds a number, or from any
\* row after it
C17_NumberLabelEndsBlock ==
    (call \in NumberLabelCalls /\ out.res \in {"dict", "list"} /\ out.records # <<>>) =>
        \A start \in {ScanStart(call, grid)} : \A col \in {LabelCol(call, grid)} :
            \A r \in 0..(NRows(grid) - 1) :
                NumberLabelAt(grid, start, col, r) =>
                    \A i \in 1..Len(out.records) : out.records[i].row < r

\* records were read, the next row has a number as its label, and the row
\* after that is a line item with an amount
C17_Witness ==
    /\ call \in NumberLabelCalls
    /\ out.res \in {"dict", "list"}
    /\ \E i \in 1..Len(out.records) :
        LET r == out.records[i].row + 1
        IN  /\ NumberLabelAt(grid, ScanStart(call, grid), LabelCol(call, grid), r)
            /\ r + 1 < NRows(grid)
            /\ IsStr(Cell(grid, r + 1, LabelCol(call, grid)))
            /\ ProbeAmount(grid, r + 1, LabelCol(call, grid), 1).kind = "num"

----------------------------------------------------------------------------
(* The 'Itogo kassa' subtotal of the payments *)

\* the label of row r starts with 'ITOGO KASSA' once trimmed and upper-cased
CashTotalLabel(df, r) ==
    /\ ~IsBlank(Cell(df, r, 0))
    /\ StrStartsWith(StrUpper(StrStrip(PyStr(Cell(df, r, 0)))), <<"ITOGO", " ", "KASSA">>)

\* the records of the 'Itogo kassa' rows, in the order read
CashTotalRecords(records) == SelectSeq(records, LAMBDA rec : rec.is_cash_total)

\* C18: every record read from an 'Itogo kassa' row, and no other, has
\* is_cash_total true and is_total false; the row below it is still read and
\* emitted; cash_total is the amount of the 'Itogo kassa' row (of the last
\* one when the block has several)
C18_CashSubtotal ==
    (call = "extract_payment_types" /\ out.res = "dict") =>
        /\ \A i \in 1..Len(out.records) :
            LET rec == out.records[i]
            IN  /\ rec.is_cash_total <=> CashTotalLabel(grid, rec.row)
                /\ rec.is_cash_total => ~rec.is_total
                /\ (/\ rec.is_cash_total
                    /\ rec.row + 1 < NRows(grid)
                    /\ IsStr(Cell(grid, rec.row + 1, 0))
                    /\ StrStrip(Cell(grid, rec.row + 1, 0).s) # <<>>)
                        => \E j \in 1..Len(out.records) : out.records[j].row = rec.row + 1
        /\ out.cash_total =
            IF CashTotalRecords(out.records) = <<>> THEN None
            ELSE Some(CashTotalRecords(out.records)[Len(CashTotalRecords(out.records))].amount)

\* an 'Itogo kassa' row was read, a line item below it was emitted, and
\* cash_total carries a figure
C18_Witness ==
    /\ call = "extract_payment_types"
    /\ out.res = "dict"
    /\ out.cash_total.some
    /\ \E i, j \in 1..Len(out.records) :
        /\ out.records[i].is_cash_total
        /\ out.records[j].row > out.records[i].row
        /\ ~out.records[j].is_total

----------------------------------------------------------------------------
(* The staff debts hang below the total of the cash collection *)

\* row t holds a total label in column c, below an 'Inkassaciya' header of
\* that column
CashTotalRowAt(df, t, c) ==
    /\ IsStr(Cell(df, t, c))
    /\ StrIn(<<"itogo">>, StrLower(Cell(df, t, c).s))
    /\ \E h \in 0..(t - 1) : CellHas(df, h, c, <<"inkassaciya">>)

\* C19: extract_staff_debts returns the empty result when the sheet has no
\* total row of a cash block, and each of its records comes from a row
\* strictly below such a total row, in the label column of the cash block
C19_DebtsBelowCashTotal ==
    (call = "extract_staff_debts" /\ readable) =>
        /\ (\A t \in 0..(NRows(grid) - 1) : \A c \in 0..(NCols(grid) - 1) :
                ~CashTotalRowAt(grid, t, c)) => out = EmptyResult
        /\ out.res = "dict" =>
            \A i \in 1..Len(out.records) :
                \E t \in 0..(out.records[i].row - 1) :
                    CashTotalRowAt(grid, t, LabelCol(call, grid))

\* debts were read from a sheet whose cash block has a total row
C19_Witness ==
    /\ call = "extract_staff_debts"
    /\ out.res = "dict"
    /\ Len(out.records) >= 2

\* the sheet has a cash block without a total row and rows where the debts
\* would stand, and extract_staff_debts returned the empty result
C19_WitnessNoTotal ==
    /\ call = "extract_staff_debts"
    /\ out = EmptyResult
    /\ NRows(grid) > 7
    /\ CellHas(grid, 0, 0, <<"inkassaciya">>)
    /\ \A t \in 0..(NRows(grid) - 1) : ~CashTotalRowAt(grid, t, 0)
    /\ IsStr(Cell(grid, 7, 0))

----------------------------------------------------------------------------
(* The amount of a cash collection row *)

\* C20 as stated: the amount of a cash record that is not the total is
\* quantity * exchange_rate, rounded to two fractional digits, when the amount
\* cell of its row is blank, and the value of the amount cell when it is not
C20_CashRowAmount ==
    (call = "extract_cash_collection" /\ out.res = "dict") =>
        \A i \in 1..Len(out.records) :
            LET rec == out.records[i]
                amount_cell == Cell(grid, rec.row, LabelCol(call, grid) + 3)
            IN  ~rec.is_total =>
                    rec.amount = IF IsBlank(amount_cell)
                                 THEN Quantize(rec.quantity.h * rec.exchange_rate.h, 4)
                                 ELSE ParseDecimal(amount_cell).h

----------------------------------------------------------------------------
(* A total row without an amount *)

\* the cell a scan reads the amount of row r from, for the blocks whose
\* amount stands in a fixed column
AmountCell(name, df, r) ==
    CASE name = "extract_payment_types" -> Cell(df, r, 2)
      [] name = "extract_cash_collection" -> Cell(df, r, LabelCol(name, df) + 3)
      [] name = "extract_staff_debts" -> Cell(df, r, LabelCol(name, df) + 1)

\* C21 as stated: a total row whose amount cell is blank yields no total
\* record, so every total record of the payments, the cash collection and the
\* debts comes from a row that carries an amount
C21_NoTotalWithoutAmount ==
    (/\ call \in {"extract_payment_types", "extract_cash_collection", "extract_staff_debts"}
     /\ out.res = "dict") =>
        \A i \in 1..Len(out.records) :
            out.records[i].is_total => ~IsBlank(AmountCell(call, grid, out.records[i].row))

----------------------------------------------------------------------------
(* The header row of the ticket sales *)

\* C22 as stated: the row directly below the tickets anchor is the header
\* row; it is never emitted, and every record comes from a row below it
C22_RecordsBelowHeader ==
    (call = "extract_ticket_sales" /\ out.res = "dict") =>
        \A start \in {FindTicketsStart(grid, 0)} :
            \A i \in 1..Len(out.records) : out.records[i].row > start

----------------------------------------------------------------------------
(* The three buckets of the notes *)

\* the row carries one of the words that end the notes
BalanceRow(df, notes_col, r) ==
    \E word \in {<<"dohod">>, <<"rashod">>, <<"pribyl">>} : \E side \in 0..1 :
        StrIn(word, StrLower(CellText(Cell(df, r, notes_col + side))))

\* the non-empty texts of the two note columns, as <<row, side>>, from the
\* first data row down to the row that ends the notes
NoteTexts(df, notes_col, start_row) ==
    {rs \in (start_row..(NRows(df) - 1)) \X (0..1) :
        /\ CellText(Cell(df, rs[1], notes_col + rs[2])) # <<>>
        /\ \A q \in start_row..rs[1] : ~BalanceRow(df, notes_col, q)}

\* the number of cell texts an entry of 'extra' stands for: two when it is
\* the left and the right text of a row joined by a blank
RECURSIVE ExtraTexts(_)
ExtraTexts(extra) ==
    IF extra = <<>> THEN 0
    ELSE (IF \E k \in 1..Len(Head(extra)) : Head(extra)[k] = " " THEN 2 ELSE 1)
         + ExtraTexts(Tail(extra))

\* every entry of a column sequence is the text of its row in that column;
\* only the last entry may be a total
ColumnSequence(df, col, seq) ==
    \A i \in 1..Len(seq) :
        /\ seq[i].entry_text = CellText(Cell(df, seq[i].row, col))
        /\ seq[i].is_total <=> StrStartsWith(StrLower(seq[i].entry_text), <<"itogo">>)
        /\ seq[i].is_total => i = Len(seq)
        /\ \A j \in 1..(i - 1) : seq[j].row < seq[i].row

\* C23: each column sequence of the notes has at most one total entry, its
\* last; every non-empty text read before the stop row is in exactly one of
\* the two sequences and 'extra'
C23_NotesBuckets ==
    (call = "extract_notes_entries" /\ out.res = "notes") =>
        \A found \in {FindAnywhere(grid, <<"primechan">>)} :
            /\ ColumnSequence(grid, found[2], out.beznal)
            /\ ColumnSequence(grid, found[2] + 1, out.nal)
            /\ Len(out.beznal) + Len(out.nal) + ExtraTexts(out.extra) =
                Cardinality(NoteTexts(grid, found[2],
                    NotesSkipHeader(grid, found[2], found[1] + 1, found[1] + 1)))

\* both columns were closed by a total and texts below them went to 'extra'
C23_Witness ==
    /\ call = "extract_notes_entries"
    /\ out.res = "notes"
    /\ \E i \in 1..Len(out.beznal) : out.beznal[i].is_total
    /\ \E i \in 1..Len(out.nal) : out.nal[i].is_total
    /\ ExtraTexts(out.extra) >= 2

----------------------------------------------------------------------------
(* Rounding of native numbers *)

RecordLists(result) ==
    CASE result.res \in {"dict", "list"} -> {result.records}
      [] result.res = "notes" -> {result.beznal, result.nal}
      [] OTHER -> {}

\* C26: the records of every returned list are in strictly increasing order of
\* the grid row they were read from, so no row gives two records to one list
C26_SourceRowOrder ==
    call \in ExtractCalls =>
        \A records \in RecordLists(out) :
            \A i \in 1..Len(records) : \A j \in 1..Len(records) :
                i < j => records[i].row < records[j].row

\* a blank row was skipped between two records of the list
C26_Witness ==
    /\ call = "extract_ticket_sales" /\ out.res = "dict"
    /\ \E i \in 1..(Len(out.records) - 1) :
        /\ out.records[i + 1].row = out.records[i].row + 2
        /\ \A c \in 0..(NCols(grid) - 1) : IsBlank(Cell(grid, out.records[i].row + 1, c))

\* C27: when extract_cash_collection returns records ending in a total record
\* read from row r, the search of extract_staff_debts finds the cash total at
\* the same row r of the grid
C27_CashTotalAgreed ==
    (/\ call = "extract_cash_collection" /\ out.res = "dict"
     /\ Len(out.records) >= 1
     /\ out.records[Len(out.records)].is_total) =>
        FindCashItogo(grid)[1] = out.records[Len(out.records)].row

\* C28: when extract_totals_summary finds its header, the label column, one
\* left of the 'dohod' cell, is a column index of the grid that is not negative
C28_LabelColumnValid ==
    (call = "extract_totals_summary" /\ FindTotalsHeader(grid)[1] # -1) =>
        /\ FindTotalsHeader(grid)[2] >= 0
        /\ FindTotalsHeader(grid)[2] < NCols(grid)

\* a record whose label was read from the last column of the row
C28_WrappedRecord ==
    /\ call = "extract_totals_summary" /\ out.res = "list"
    /\ Len(out.records) = 1
    /\ FindTotalsHeader(grid)[2] = -1
    /\ out.records[1].payment_type = <<"nalichnye">>
    /\ out.records[1].income_amount = 1

IsLineItem(record) == ~record.is_total

RECURSIVE SumQuantities(_)
SumQuantities(records) ==
    IF records = <<>> THEN 0 ELSE Head(records).quantity + SumQuantities(Tail(records))

\* C29: for ticket sales totals_match is true exactly when no total row was
\* read, or the total row's quantity equals the sum of the quantities of the
\* data rows and its amount differs from the sum of their amounts by at most
\* 0.01; without a total row total_quantity and total_amount are these sums
C29_TicketsTotalsMatch ==
    (call = "extract_ticket_sales" /\ out.res = "dict") =>
        \A items \in {SelectSeq(out.records, IsLineItem)} :
            /\ out.totals_match <=>
                    \A i \in TotalRecords(out.records) :
                        /\ out.records[i].quantity = SumQuantities(items)
                        /\ Abs(out.records[i].amount - SumAmounts(items)) <= 1
            /\ TotalRecords(out.records) = {} =>
                    /\ out.total_quantity = SumQuantities(items)
                    /\ out.total_amount = SumAmounts(items)

\* the total row's amount is within 0.01 of the sum, its quantity is not
C29_Witness ==
    /\ call = "extract_ticket_sales" /\ out.res = "dict"
    /\ TotalRecords(out.records) # {}
    /\ Len(out.records) >= 2
    /\ out.total_quantity # out.calculated_quantity
    /\ Abs(out.total_amount - out.calculated_amount) = 1
    /\ ~out.totals_match

\* no total row was read and the totals are the sums
C29_WitnessNoTotal ==
    /\ call = "extract_ticket_sales" /\ out.res = "dict"
    /\ TotalRecords(out.records) = {}
    /\ out.total_quantity = 2 /\ out.total_amount = 2
    /\ out.totals_match

----------------------------------------------------------------------------
(* One save_<block> call statement by statement, with a reader on another
   connection (src/database.py).  db is the committed table, memo the
   connection of the save, out what the reader last listed, latest the
   records of the last committed save of each file *)

SavedRecordLists ==
    {<<>>,
     <<[category |-> <<"Bar">>, amount |-> 1]>>,
     <<[category |-> <<"Bar">>, amount |-> 2],
       [category |-> <<"Itogo", " ", "za", " ", "smen", "u">>, amount |-> 2]>>}

\* the table as other connections see it while conn has statements executed
\* and not committed, on a connection that commits at every statement
CommittedAutocommit(committed, conn) == conn.table

\* the table as other connections see it while conn has statements executed
\* and not committed: psycopg2.connect() opens a transaction at the first
\* statement and nothing is visible before conn.commit()
Committed(committed, conn) == committed

InitSave ==
    /\ raw = NoneVal
    /\ parsed = NotParsed
    /\ readable = TRUE
    /\ grid = <<>>
    /\ proc = ProcInit
    /\ call = "idle"
    /\ out = NoResult
    /\ memo = NoResult
    /\ interleaved = FALSE
    /\ files = <<>>
    /\ db = <<>>
    /\ latest = [file_id \in 1..MaxFiles |-> <<>>]

\* save_income_records(file_id, records) up to the connection: returns at
\* once when there are no records
SaveConnect ==
    /\ memo.res # "conn"
    /\ \E file_id \in 1..MaxFiles : \E records \in SavedRecordLists :
        \/ /\ records = <<>>
           /\ memo' = [res |-> "closed", file_id |-> file_id, records |-> records,
                       pc |-> "returned", table |-> <<>>]
        \/ /\ records # <<>>
           /\ memo' = [res |-> "conn", file_id |-> file_id, records |-> records,
                       pc |-> "connected", table |-> db]
    /\ call' = "save_income_records"
    /\ UNCHANGED <<raw, parsed, readable, grid, proc, out, interleaved, store>>

\* cur.execute("DELETE FROM income_records WHERE file_id = %s")
SaveDelete ==
    /\ memo.res = "conn" /\ memo.pc = "connected"
    /\ memo' = [memo EXCEPT !.pc = "deleted",
                            !.table = SelectSeq(@, LAMBDA r : r.file_id # memo.file_id)]
    /\ db' = Committed(db, memo')
    /\ call' = "execute"
    /\ UNCHANGED <<raw, parsed, readable, grid, proc, out, interleaved, files, latest>>

\* cur.executemany("INSERT INTO income_records ...")
SaveInsert ==
    /\ memo.res = "conn" /\ memo.pc = "deleted"
    /\ memo' = [memo EXCEPT !.pc = "inserted",
                            !.table = @ \o [i \in 1..Len(memo.records) |->
                                                [file_id |-> memo.file_id,
                                                 rec |-> memo.records[i]]]]
    /\ db' = Committed(db, memo')
    /\ call' = "executemany"
    /\ UNCHANGED <<raw, parsed, readable, grid, proc, out, interleaved, files, latest>>

\* the with-block ends: conn.commit(), conn.close()
ConnCommit ==
    /\ memo.res = "conn" /\ memo.pc = "inserted"
    /\ db' = memo.table
    /\ latest' = [latest EXCEPT ![memo.file_id] = memo.records]
    /\ memo' = [memo EXCEPT !.res = "closed", !.pc = "committed", !.table = <<>>]
    /\ call' = "commit"
    /\ UNCHANGED <<raw, parsed, readable, grid, proc, out, interleaved, files>>

\* a statement or the commit raises: conn.rollback(), the exception is
\* re-raised, conn.close(); memo.pc keeps the step that was reached
ConnRollback ==
    /\ memo.res = "conn"
    /\ memo' = [memo EXCEPT !.res = "raised", !.table = <<>>]
    /\ call' = "rollback"
    /\ UNCHANGED <<raw, parsed, readable, grid, proc, out, interleaved, store>>

\* list_income_records(file_id) on a connection of its own
ListIncomeRecords ==
    /\ \E file_id \in 1..MaxFiles :
        out' = [res |-> "rows", file_id |-> file_id, rows |-> ListRecords(db, file_id)]
    /\ call' = "list_income_records"
    /\ UNCHANGED <<raw, parsed, readable, grid, proc, memo, interleaved, store>>

NextSave ==
    \/ SaveConnect \/ SaveDelete \/ SaveInsert
    \/ ConnCommit \/ ConnRollback \/ ListIncomeRecords

SpecSave == InitSave /\ [][NextSave]_vars

\* C30: at every moment of a save, also after a statement of it raised, the
\* committed rows of every file are the records of the last save of that
\* file that committed; a reader lists exactly these; and what the save
\* commits is the replacement of the file's rows by the new records
C30_ReplacedAtomically ==
    /\ \A file_id \in 1..MaxFiles : ListRecords(db, file_id) = latest[file_id]
    /\ call = "list_income_records" => out.rows = latest[out.file_id]
    /\ (memo.res = "conn" /\ memo.pc = "inserted") =>
            memo.table = SaveRecords(db, memo.file_id, memo.records)

\* the insert raised after the delete ran, and the rows stored before are kept
C30_Witness ==
    /\ call = "rollback"
    /\ memo.res = "raised" /\ memo.pc = "deleted"
    /\ latest[memo.file_id] # <<>>
    /\ latest[memo.file_id] # memo.records
    /\ ListRecords(db, memo.file_id) = latest[memo.file_id]

\* a reader lists the file between the delete and the insert of a save
C30_WitnessReader ==
    /\ call = "list_income_records"
    /\ memo.res = "conn" /\ memo.pc = "deleted"
    /\ out.file_id = memo.file_id
    /\ out.rows # <<>> /\ out.rows # memo.records

====
